---- MODULE Spec2Model ----
(***************************************************************************)
(* A model of ReShade's graphics-API abstraction layer: the Vulkan         *)
(* device_impl (object registry, resource creation/destruction, mapping),  *)
(* the Vulkan layer hooks that intercept the application's calls, the      *)
(* OpenGL device_impl (packed handles, views, render passes) and the       *)
(* Direct3D 9 device proxy (render target tracking, creation hooks).       *)
(*                                                                         *)
(* A run fixes one backend and one build flavour (NDEBUG or not) in Init   *)
(* and then interleaves calls made by add-ons (the device interface) and   *)
(* by the application (the intercepted native entry points).  Every call   *)
(* is one atomic step; the record of the latest call is kept in a *_last   *)
(* variable so that properties of a call can be stated on the state that   *)
(* follows it.                                                             *)
(***************************************************************************)
EXTENDS Integers, Sequences, FiniteSets, TLC

\* Number of distinct native object names the driver hands out per backend.
MaxHandle == 2

VARIABLES
    backend,        \* "vulkan" | "opengl" | "d3d9": the device this run wraps
    ndebug,         \* TRUE: release build, assert() compiles to nothing
    crashed,        \* "none" | "assert" | "exception": how the process ended
    vk_resources,   \* device_impl::_resources: handle -> resource_data
    vk_views,       \* device_impl::_views: handle -> resource_view_data
    vk_native,      \* live native Vulkan objects: handle -> kind
    vk_app,         \* handles the application got back from vkCreate*
    vk_last,        \* record of the latest Vulkan call
    qp_queues       \* device_impl::_queues: whether each queue has an immediate command list

vkVars == <<vk_resources, vk_views, vk_native, vk_app, vk_last>>

Handles == 1..MaxHandle

\* Content of a caller's output slot that the callee never wrote.
stale_handle == MaxHandle + 1

----------------------------------------------------------------------------
(* Abstraction-level resource descriptions and their native counterparts.  *)

no_desc ==
    [type |-> "unknown", width |-> 0, height |-> 0, depth_or_layers |-> 0,
     format |-> "unknown", size |-> 0, heap |-> "unknown"]

buffer_desc(size, heap) ==
    [type |-> "buffer", width |-> 0, height |-> 0, depth_or_layers |-> 0,
     format |-> "unknown", size |-> size, heap |-> heap]

texture_desc(type, w, h, d, format, heap) ==
    [type |-> type, width |-> w, height |-> h, depth_or_layers |-> d,
     format |-> format, size |-> 0, heap |-> heap]

\* The descriptions add-ons request in this model.
ResourceDescs ==
    { buffer_desc(1, "gpu_only"), buffer_desc(2, "unknown"),
      texture_desc("texture_2d", 2, 1, 1, "r8g8b8a8_unorm", "gpu_only"),
      texture_desc("texture_2d", 1, 2, 2, "r8g8b8x8_unorm", "cpu_to_gpu"),
      texture_desc("texture_3d", 1, 1, 2, "r8g8b8a8_unorm", "unknown"),
      texture_desc("surface", 1, 1, 1, "r8g8b8a8_unorm", "gpu_only") }

\* api::format -> VkFormat.  The x8 formats have no Vulkan counterpart and
\* share the native format of their a8 sibling (views fix the alpha swizzle).
vulkan_convert_format(format) ==
    CASE format = "r8g8b8a8_unorm" -> "VK_FORMAT_R8G8B8A8_UNORM"
      [] format = "r8g8b8x8_unorm" -> "VK_FORMAT_R8G8B8A8_UNORM"
      [] OTHER -> "VK_FORMAT_UNDEFINED"

\* VkFormat -> api::format.
vulkan_convert_format_back(vk_format) ==
    CASE vk_format = "VK_FORMAT_R8G8B8A8_UNORM" -> "r8g8b8a8_unorm"
      [] OTHER -> "unknown"

\* api::resource_desc -> VkBufferCreateInfo / VkImageCreateInfo.
vulkan_convert_resource_desc(desc) ==
    IF desc.type = "buffer"
    THEN [sType |-> "VK_STRUCTURE_TYPE_BUFFER_CREATE_INFO",
          imageType |-> "none", format |-> "VK_FORMAT_UNDEFINED",
          width |-> 0, height |-> 0, depth |-> 0, arrayLayers |-> 0,
          size |-> desc.size]
    ELSE [sType |-> "VK_STRUCTURE_TYPE_IMAGE_CREATE_INFO",
          imageType |-> CASE desc.type = "texture_1d" -> "VK_IMAGE_TYPE_1D"
                          [] desc.type = "texture_2d" -> "VK_IMAGE_TYPE_2D"
                          [] OTHER -> "VK_IMAGE_TYPE_3D",
          format |-> vulkan_convert_format(desc.format),
          width |-> desc.width, height |-> desc.height,
          depth |-> IF desc.type = "texture_3d" THEN desc.depth_or_layers ELSE 1,
          arrayLayers |-> IF desc.type = "texture_3d" THEN 1 ELSE desc.depth_or_layers,
          size |-> 0]

\* VkBufferCreateInfo / VkImageCreateInfo -> api::resource_desc.
vulkan_convert_resource_desc_back(create_info) ==
    IF create_info.sType = "VK_STRUCTURE_TYPE_BUFFER_CREATE_INFO"
    THEN buffer_desc(create_info.size, "unknown")
    ELSE texture_desc(
            CASE create_info.imageType = "VK_IMAGE_TYPE_1D" -> "texture_1d"
              [] create_info.imageType = "VK_IMAGE_TYPE_2D" -> "texture_2d"
              [] OTHER -> "texture_3d",
            create_info.width, create_info.height,
            IF create_info.imageType = "VK_IMAGE_TYPE_3D"
            THEN create_info.depth ELSE create_info.arrayLayers,
            vulkan_convert_format_back(create_info.format), "unknown")

\* The create infos the application passes to vkCreateBuffer / vkCreateImage.
app_buffer_create_info == vulkan_convert_resource_desc(buffer_desc(1, "unknown"))
app_image_create_info ==
    vulkan_convert_resource_desc(
        texture_desc("texture_2d", 1, 1, 1, "r8g8b8a8_unorm", "unknown"))

----------------------------------------------------------------------------
(* Vulkan device_impl: the registry and its accessors.                     *)

\* resource_data::is_image
is_image(data) == data.create_info.sType /= "VK_STRUCTURE_TYPE_BUFFER_CREATE_INFO"

\* std::unordered_map::emplace: inserts only when the key is absent.
emplace(map, key, value) ==
    IF key \in DOMAIN map THEN map
    ELSE [k \in DOMAIN map \cup {key} |-> IF k = key THEN value ELSE map[k]]

\* std::unordered_map::erase
erase(map, key) == [k \in DOMAIN map \ {key} |-> map[k]]

\* Fault: a registration that is lost.
register_resource_dropped(resources, object, create_info, allocation, owned) ==
    resources

\* device_impl::register_image / register_buffer
register_resource(resources, object, create_info, allocation, owned) ==
    emplace(resources, object,
            [create_info |-> create_info, allocation |-> allocation, owned |-> owned])

\* device_impl::register_image_view / register_buffer_view
register_view(views, object, is_image_view, resource, owned) ==
    emplace(views, object,
            [is_image_view |-> is_image_view, resource |-> resource, owned |-> owned])

\* Fault: a record that is left behind.
unregister_resource_skipped(resources, object) == resources

\* device_impl::unregister_image / unregister_buffer, and the erase that
\* ends destroy_resource
unregister_resource(resources, object) == erase(resources, object)

\* device_impl::unregister_image_view / unregister_buffer_view
unregister_view(views, object) == erase(views, object)

\* device_impl::is_resource_handle_valid
vulkan_is_resource_handle_valid(handle) ==
    IF handle = 0 THEN FALSE ELSE handle \in DOMAIN vk_resources

\* device_impl::get_resource_desc (defined on registered handles only:
\* lookup_resource throws otherwise)
vulkan_get_resource_desc(resource) ==
    vulkan_convert_resource_desc_back(vk_resources[resource].create_info)

----------------------------------------------------------------------------
(* The record of a Vulkan call: its arguments, what it returned, what it   *)
(* left in the caller's output slot, the calls it made in order (trace),   *)
(* and what the registry held for its handle when it was entered.          *)

vk_no_call ==
    [op |-> "none", handle |-> 0, desc |-> no_desc, ret |-> FALSE, out |-> 0,
     data |-> "null", trace |-> <<>>, pre |-> "unregistered",
     was_destroyed |-> FALSE, handled |-> FALSE]

\* What the registry holds for a handle.
registered_as(map, handle) ==
    IF handle \notin DOMAIN map THEN "unregistered"
    ELSE IF map[handle].owned THEN "owned" ELSE "not_owned"

\* Native objects: creation hands out a name that is not in use.
native_create(native, object, kind) ==
    [k \in DOMAIN native \cup {object} |-> IF k = object THEN kind ELSE native[k]]

native_destroy(native, object) == [k \in DOMAIN native \ {object} |-> native[k]]

\* The state a handler leaves behind.
vk_effect(ret, out, resources, views, native, trace, crash) ==
    [ret |-> ret, out |-> out, resources |-> resources, views |-> views,
     native |-> native, trace |-> trace, crash |-> crash]

----------------------------------------------------------------------------
(* Vulkan device_impl: operations of the device interface.                 *)

\* The VMA allocation made for a heap: none for memory_heap::unknown (the
\* object is created with vk.Create*), host visible for the CPU heaps, and
\* wherever the allocator places it for GPU_ONLY.
vma_allocation(heap, host_visible) ==
    CASE heap = "unknown" -> "VK_NULL_HANDLE"
      [] heap \in {"cpu_to_gpu", "gpu_to_cpu", "cpu_only"} -> "vma_host_visible"
      [] OTHER -> IF host_visible THEN "vma_host_visible" ELSE "vma_device_local"

\* The calls upload_texture_region makes for a registered texture: the
\* upload buffer is created and mapped, filled, copied to the texture on
\* the immediate command list and destroyed.  created and mapped are the
\* results of vmaCreateBuffer and vmaMapMemory.
upload_texture_region_calls(created, mapped) ==
    <<"upload_texture_region", "lookup_resource", "vmaCreateBuffer">>
    \o (IF ~created THEN <<"LOG(ERROR)">>
        ELSE (IF mapped
              THEN <<"vmaMapMemory", "memcpy", "vmaUnmapMemory", "copy_buffer_to_texture",
                     "flush_and_wait">>
              ELSE <<"vmaMapMemory">>)
             \o <<"vmaDestroyBuffer">>)

RECURSIVE repeat_calls(_, _)
repeat_calls(calls, n) == IF n = 0 THEN <<>> ELSE calls \o repeat_calls(calls, n - 1)

\* The call occurs among the calls made.
in_calls(calls, c) == \E i \in DOMAIN calls : calls[i] = c

\* The uploads and barriers create_resource records for a new texture on
\* the first queue that has an immediate command list.
create_resource_uploads(desc, initial_data, initial_state, queues, created, mapped) ==
    IF initial_state = "undefined" THEN <<>>
    ELSE IF ~\E q \in DOMAIN queues : queues[q] THEN <<>>
    ELSE IF initial_data
    THEN <<"barrier">>
         \o repeat_calls(upload_texture_region_calls(created, mapped), desc.depth_or_layers)
         \o <<"barrier", "flush_immediate_command_list">>
    ELSE <<"barrier", "flush_immediate_command_list">>

\* device_impl::create_resource.  object = 0: the native creation failed.
vulkan_create_resource(desc, initial_data, initial_state, object, host_visible, queues, created, mapped) ==
    LET allocation == IF object = 0 THEN "VK_NULL_HANDLE"
                      ELSE vma_allocation(desc.heap, host_visible)
        native_call == IF desc.heap = "unknown" THEN "vk.Create" ELSE "vmaCreate"
    IN  IF desc.type = "buffer"
        THEN LET create_info == vulkan_convert_resource_desc(desc)
             IN  IF object /= 0
                 THEN vk_effect(TRUE, object,
                          register_resource(vk_resources, object, create_info, allocation, TRUE),
                          vk_views, native_create(vk_native, object, "buffer"),
                          <<native_call, "register_buffer">>, "none")
                 ELSE vk_effect(FALSE, 0, vk_resources, vk_views, vk_native,
                          <<native_call>>, "none")
        ELSE IF desc.type \in {"texture_1d", "texture_2d", "texture_3d"}
        THEN LET create_info == vulkan_convert_resource_desc(desc)
                 registered == register_resource(vk_resources, object, create_info,
                                                 allocation, TRUE)
                 uploads == create_resource_uploads(desc, initial_data, initial_state,
                                                    queues, created, mapped)
             IN  IF object /= 0
                 THEN IF initial_data /\ initial_state = "undefined" /\ ~ndebug
                      THEN vk_effect(TRUE, object, registered, vk_views,
                               native_create(vk_native, object, "image"),
                               <<native_call, "register_image">>, "assert")
                      ELSE IF in_calls(uploads, "lookup_resource") /\ object \notin DOMAIN registered
                      THEN \* upload_texture_region: _resources.at throws
                           vk_effect(FALSE, object, registered, vk_views,
                               native_create(vk_native, object, "image"),
                               <<native_call, "register_image", "barrier",
                                 "upload_texture_region", "lookup_resource">>, "exception")
                      ELSE vk_effect(TRUE, object, registered, vk_views,
                               native_create(vk_native, object, "image"),
                               <<native_call, "register_image">> \o uploads, "none")
                 ELSE vk_effect(FALSE, 0, vk_resources, vk_views, vk_native,
                          <<native_call>>, "none")
        ELSE vk_effect(FALSE, 0, vk_resources, vk_views, vk_native, <<>>, "none")

\* device_impl::create_resource_view.  object = 0: the native creation failed.
vulkan_create_resource_view(resource, object) ==
    IF resource \notin DOMAIN vk_resources
    THEN vk_effect(FALSE, stale_handle, vk_resources, vk_views, vk_native,
                   <<"lookup_resource">>, "exception")
    ELSE LET image == is_image(vk_resources[resource])
             native_call == IF image THEN "vk.CreateImageView" ELSE "vk.CreateBufferView"
         IN  IF object /= 0
             THEN vk_effect(TRUE, object, vk_resources,
                      register_view(vk_views, object, image, resource, TRUE),
                      native_create(vk_native, object,
                                    IF image THEN "image_view" ELSE "buffer_view"),
                      <<"lookup_resource", native_call, "register_view">>, "none")
             ELSE vk_effect(FALSE, 0, vk_resources, vk_views, vk_native,
                      <<"lookup_resource", native_call>>, "none")

\* device_impl::destroy_resource
vulkan_destroy_resource(handle) ==
    IF handle = 0
    THEN vk_effect(TRUE, 0, vk_resources, vk_views, vk_native, <<>>, "none")
    ELSE IF handle \notin DOMAIN vk_resources
    THEN \* lookup_resource: _resources.at throws std::out_of_range
         vk_effect(FALSE, 0, vk_resources, vk_views, vk_native,
                   <<"lookup_resource">>, "exception")
    ELSE LET data == vk_resources[handle]
         IN  IF ~data.owned /\ ~ndebug
             THEN vk_effect(FALSE, 0, vk_resources, vk_views, vk_native,
                            <<"lookup_resource">>, "assert")
             ELSE vk_effect(TRUE, 0,
                      unregister_resource(vk_resources, handle),
                      vk_views, native_destroy(vk_native, handle),
                      <<"lookup_resource",
                        IF data.allocation = "VK_NULL_HANDLE"
                        THEN (IF is_image(data) THEN "vk.DestroyImage" ELSE "vk.DestroyBuffer")
                        ELSE (IF is_image(data) THEN "vmaDestroyImage" ELSE "vmaDestroyBuffer")>>,
                      "none")

\* device_impl::destroy_resource_view
vulkan_destroy_resource_view(handle) ==
    IF handle = 0
    THEN vk_effect(TRUE, 0, vk_resources, vk_views, vk_native, <<>>, "none")
    ELSE IF handle \notin DOMAIN vk_views
    THEN vk_effect(FALSE, 0, vk_resources, vk_views, vk_native,
                   <<"lookup_resource_view">>, "exception")
    ELSE LET data == vk_views[handle]
         IN  IF ~data.owned /\ ~ndebug
             THEN vk_effect(FALSE, 0, vk_resources, vk_views, vk_native,
                            <<"lookup_resource_view">>, "assert")
             ELSE vk_effect(TRUE, 0, vk_resources,
                      unregister_view(vk_views, handle),
                      native_destroy(vk_native, handle),
                      <<"lookup_resource_view",
                        IF data.is_image_view THEN "vk.DestroyImageView"
                        ELSE "vk.DestroyBufferView">>,
                      "none")

\* vmaMapMemory: maps host-visible memory and fails on any other, leaving
\* the caller's pointer as it was.
vmaMapMemory(allocation, data) ==
    IF allocation = "vma_host_visible"
    THEN [ret |-> TRUE, data |-> "mapped"]
    ELSE [ret |-> FALSE, data |-> data]

\* device_impl::map_resource; data is what the caller's pointer held.
vulkan_map_resource(resource, subresource, data) ==
    IF resource \notin DOMAIN vk_resources
    THEN [ret |-> FALSE, data |-> data, crash |-> "exception"]
    ELSE LET res_data == vk_resources[resource]
         IN  IF res_data.allocation /= "VK_NULL_HANDLE"
             THEN IF subresource /= 0 /\ ~ndebug
                  THEN [ret |-> FALSE, data |-> data, crash |-> "assert"]
                  ELSE [ret |-> vmaMapMemory(res_data.allocation, data).ret,
                        data |-> vmaMapMemory(res_data.allocation, data).data,
                        crash |-> "none"]
             ELSE [ret |-> FALSE, data |-> "null", crash |-> "none"]

----------------------------------------------------------------------------
(* Vulkan layer hooks: the application's intercepted calls.  An add-on     *)
(* that handles a create notification hands back a resource it created     *)
(* through the device interface (replacement /= 0).                        *)

\* vkCreateBuffer / vkCreateImage.  replacement /= 0: an add-on handled the
\* create_resource notification.  object = 0: the trampoline failed.
vkCreateResource(kind, create_info, replacement, object) ==
    IF replacement /= 0
    THEN vk_effect(TRUE, replacement, vk_resources, vk_views, vk_native,
                   <<"create_resource">>, "none")
    ELSE IF object /= 0
    THEN vk_effect(TRUE, object,
             register_resource(vk_resources, object, create_info, "VK_NULL_HANDLE", FALSE),
             vk_views, native_create(vk_native, object, kind),
             <<"create_resource", "trampoline", "register", "init_resource">>, "none")
    ELSE vk_effect(FALSE, stale_handle, vk_resources, vk_views, vk_native,
                   <<"create_resource", "trampoline">>, "none")

\* vkCreateImageView
vkCreateImageView(image, replacement, object) ==
    IF replacement /= 0
    THEN vk_effect(TRUE, replacement, vk_resources, vk_views, vk_native,
                   <<"create_resource_view">>, "none")
    ELSE IF object /= 0
    THEN vk_effect(TRUE, object, vk_resources,
             register_view(vk_views, object, TRUE, image, FALSE),
             native_create(vk_native, object, "image_view"),
             <<"create_resource_view", "trampoline", "register", "init_resource_view">>,
             "none")
    ELSE vk_effect(FALSE, stale_handle, vk_resources, vk_views, vk_native,
                   <<"create_resource_view", "trampoline">>, "none")

\* vkDestroyBuffer / vkDestroyImage
vkDestroyResource(handle) ==
    IF handle \notin DOMAIN vk_resources
    THEN vk_effect(FALSE, 0, vk_resources, vk_views, vk_native,
                   <<"lookup_resource">>, "exception")
    ELSE IF vk_resources[handle].owned
    THEN vulkan_destroy_resource(handle)
    ELSE vk_effect(TRUE, 0, unregister_resource(vk_resources, handle), vk_views,
                   native_destroy(vk_native, handle),
                   <<"lookup_resource", "destroy_resource", "unregister", "trampoline">>,
                   "none")

\* vkDestroyImageView
vkDestroyImageView(handle) ==
    IF handle \notin DOMAIN vk_views
    THEN vk_effect(FALSE, 0, vk_resources, vk_views, vk_native,
                   <<"lookup_resource_view">>, "exception")
    ELSE IF vk_views[handle].owned
    THEN vulkan_destroy_resource_view(handle)
    ELSE vk_effect(TRUE, 0, vk_resources, unregister_view(vk_views, handle),
                   native_destroy(vk_native, handle),
                   <<"lookup_resource_view", "destroy_resource_view", "unregister",
                     "trampoline">>,
                   "none")

----------------------------------------------------------------------------
(* Steps of a Vulkan run.                                                  *)

\* Names the driver can give a new object; 0 stands for a failed creation.
vk_fresh == (Handles \ DOMAIN vk_native) \cup {0}

\* Registered resources an add-on may hand back as a replacement.
vk_replacements(image) ==
    {h \in DOMAIN vk_resources :
        /\ vk_resources[h].owned
        /\ is_image(vk_resources[h]) = image
        /\ h \notin DOMAIN vk_app} \cup {0}

\* The handle of the destroy_resource call that has just returned, if any:
\* the one an add-on can pass to destroy_resource a second time.
vk_just_destroyed ==
    IF vk_last.op = "destroy_resource" /\ vk_last.handle /= 0
    THEN {vk_last.handle} ELSE {}

vk_commit(e, call, app) ==
    /\ vk_resources' = e.resources
    /\ vk_views' = e.views
    /\ vk_native' = e.native
    /\ crashed' = e.crash
    /\ vk_app' = app
    /\ vk_last' = [call EXCEPT !.ret = e.ret, !.out = e.out, !.trace = e.trace]
    /\ UNCHANGED <<backend, ndebug>>

VulkanCreateResource ==
    \E desc \in ResourceDescs, initial_data \in BOOLEAN,
       initial_state \in {"undefined", "shader_resource"},
       object \in vk_fresh, host_visible \in BOOLEAN,
       created \in BOOLEAN, mapped \in BOOLEAN :
        /\ backend = "vulkan" /\ crashed = "none"
        /\ desc.type = "buffer" => ~initial_data /\ initial_state = "undefined"
        /\ desc.heap /= "gpu_only" => host_visible
        /\ ~(initial_data /\ object /= 0) => created /\ mapped
        /\ ~created => mapped
        /\ LET e == vulkan_create_resource(desc, initial_data, initial_state,
                                           object, host_visible, qp_queues, created, mapped)
           IN  vk_commit(e, [vk_no_call EXCEPT !.op = "create_resource", !.desc = desc,
                                               !.data = IF initial_data THEN "initial_data"
                                                        ELSE "null"],
                         vk_app)

VulkanCreateResourceView ==
    \E resource \in DOMAIN vk_resources, object \in vk_fresh :
        /\ backend = "vulkan" /\ crashed = "none"
        /\ LET e == vulkan_create_resource_view(resource, object)
           IN  vk_commit(e, [vk_no_call EXCEPT !.op = "create_resource_view",
                                               !.handle = resource],
                         vk_app)

VulkanDestroyResource ==
    \E handle \in {0} \cup DOMAIN vk_resources \cup vk_just_destroyed :
        /\ backend = "vulkan" /\ crashed = "none"
        /\ LET e == vulkan_destroy_resource(handle)
           IN  vk_commit(e, [vk_no_call EXCEPT !.op = "destroy_resource",
                                 !.handle = handle,
                                 !.pre = registered_as(vk_resources, handle),
                                 !.was_destroyed = handle \in vk_just_destroyed],
                         vk_app)

VulkanDestroyResourceView ==
    \E handle \in {0} \cup DOMAIN vk_views :
        /\ backend = "vulkan" /\ crashed = "none"
        /\ LET e == vulkan_destroy_resource_view(handle)
           IN  vk_commit(e, [vk_no_call EXCEPT !.op = "destroy_resource_view",
                                 !.handle = handle,
                                 !.pre = registered_as(vk_views, handle)],
                         vk_app)

VulkanMapResource ==
    \E resource \in DOMAIN vk_resources, subresource \in {0, 1},
       data \in {"null", "stale"} :
        /\ backend = "vulkan" /\ crashed = "none"
        /\ LET m == vulkan_map_resource(resource, subresource, data)
           IN  /\ crashed' = m.crash
               /\ vk_last' = [vk_no_call EXCEPT !.op = "map_resource",
                                 !.handle = resource, !.ret = m.ret, !.data = m.data,
                                 !.pre = registered_as(vk_resources, resource)]
        /\ UNCHANGED <<backend, ndebug, vk_resources, vk_views, vk_native, vk_app>>

HookCreateResource(kind, create_info) ==
    \E replacement \in vk_replacements(kind = "image"), object \in vk_fresh :
        /\ backend = "vulkan" /\ crashed = "none"
        /\ LET e == vkCreateResource(kind, create_info, replacement, object)
           IN  vk_commit(e, [vk_no_call EXCEPT !.op = "vkCreate", !.data = kind,
                                 !.handle = replacement,
                                 !.handled = replacement /= 0],
                         IF e.ret THEN native_create(vk_app, e.out, kind) ELSE vk_app)

VkCreateBuffer == HookCreateResource("buffer", app_buffer_create_info)

VkCreateImage == HookCreateResource("image", app_image_create_info)

VkCreateImageView ==
    \E image \in {h \in DOMAIN vk_app : vk_app[h] = "image"},
       replacement \in {h \in DOMAIN vk_views :
                           vk_views[h].owned /\ h \notin DOMAIN vk_app} \cup {0},
       object \in vk_fresh :
        /\ backend = "vulkan" /\ crashed = "none"
        /\ image \in DOMAIN vk_native
        /\ LET e == vkCreateImageView(image, replacement, object)
           IN  vk_commit(e, [vk_no_call EXCEPT !.op = "vkCreate", !.data = "image_view",
                                 !.handle = replacement,
                                 !.handled = replacement /= 0],
                         IF e.ret THEN native_create(vk_app, e.out, "image_view")
                         ELSE vk_app)

VkDestroyResource ==
    \E handle \in {0} \cup {h \in DOMAIN vk_app : vk_app[h] \in {"buffer", "image"}} :
        /\ backend = "vulkan" /\ crashed = "none"
        /\ LET e == vkDestroyResource(handle)
           IN  vk_commit(e, [vk_no_call EXCEPT !.op = "vkDestroy",
                                 !.data = IF handle = 0 THEN "VK_NULL_HANDLE"
                                          ELSE vk_app[handle],
                                 !.handle = handle,
                                 !.pre = registered_as(vk_resources, handle)],
                         native_destroy(vk_app, handle))

VkDestroyImageView ==
    \E handle \in {0} \cup {h \in DOMAIN vk_app : vk_app[h] = "image_view"} :
        /\ backend = "vulkan" /\ crashed = "none"
        /\ LET e == vkDestroyImageView(handle)
           IN  vk_commit(e, [vk_no_call EXCEPT !.op = "vkDestroy", !.data = "image_view",
                                 !.handle = handle,
                                 !.pre = registered_as(vk_views, handle)],
                         native_destroy(vk_app, handle))

VulkanNext ==
    \/ VulkanCreateResource
    \/ VulkanCreateResourceView
    \/ VulkanDestroyResource
    \/ VulkanDestroyResourceView
    \/ VulkanMapResource
    \/ VkCreateBuffer
    \/ VkCreateImage
    \/ VkCreateImageView
    \/ VkDestroyResource
    \/ VkDestroyImageView

----------------------------------------------------------------------------
(* OpenGL device_impl: handles pack a target, extra bits and an object     *)
(* name.  Extra bit 0x1 marks a view that aliases its resource, 0x2 an     *)
(* sRGB view.  A render pass handle packs the colour attachment count in   *)
(* place of the target.                                                    *)

GL_BACK == 1029
GL_DEPTH_STENCIL_ATTACHMENT == 33306

make_resource_handle(target, object) ==
    [target |-> target, extra |-> 0, object |-> object]

make_resource_view_handle(target, object, extra_bits) ==
    [target |-> target, extra |-> extra_bits, object |-> object]

make_render_pass_handle(fbo, num_color_attachments, extra_bits) ==
    [count |-> num_color_attachments, extra |-> extra_bits, fbo |-> fbo]

gl_zero == make_resource_view_handle("GL_NONE", 0, 0)
gl_pass_zero == make_render_pass_handle(0, 0, 0)

\* Content of an output slot the callee never wrote.
gl_stale == make_resource_view_handle("GL_NONE", 0, stale_handle)

\* handle & 0x100000000, handle & 0x200000000
has_alias_bit(handle) == handle.extra % 2 = 1
has_srgb_bit(handle) == (handle.extra \div 2) % 2 = 1

BufferTargets ==
    {"GL_BUFFER", "GL_ARRAY_BUFFER", "GL_ELEMENT_ARRAY_BUFFER", "GL_PIXEL_PACK_BUFFER",
     "GL_PIXEL_UNPACK_BUFFER", "GL_UNIFORM_BUFFER", "GL_TRANSFORM_FEEDBACK_BUFFER",
     "GL_COPY_READ_BUFFER", "GL_COPY_WRITE_BUFFER", "GL_DRAW_INDIRECT_BUFFER",
     "GL_SHADER_STORAGE_BUFFER", "GL_DISPATCH_INDIRECT_BUFFER", "GL_QUERY_BUFFER",
     "GL_ATOMIC_COUNTER_BUFFER"}

AttachableTargets ==
    {"GL_TEXTURE", "GL_TEXTURE_BUFFER", "GL_TEXTURE_1D", "GL_TEXTURE_1D_ARRAY",
     "GL_TEXTURE_2D", "GL_TEXTURE_2D_ARRAY", "GL_TEXTURE_2D_MULTISAMPLE",
     "GL_TEXTURE_2D_MULTISAMPLE_ARRAY", "GL_TEXTURE_RECTANGLE"}

TextureTargets ==
    AttachableTargets \cup {"GL_TEXTURE_3D", "GL_TEXTURE_CUBE_MAP", "GL_TEXTURE_CUBE_MAP_ARRAY"}

\* api::format -> GL internal format; GL_NONE for a format OpenGL lacks.
opengl_convert_format(format) ==
    CASE format = "r8g8b8a8_unorm" -> "GL_RGBA8"
      [] format = "r8g8b8a8_unorm_srgb" -> "GL_SRGB8_ALPHA8"
      [] OTHER -> "GL_NONE"

\* api::format_to_default_typed(format, srgb_variant)
format_to_default_typed(format, srgb_variant) ==
    IF format \in {"r8g8b8a8_unorm", "r8g8b8a8_unorm_srgb", "r8g8b8a8_typeless"}
    THEN (IF srgb_variant = 1 THEN "r8g8b8a8_unorm_srgb" ELSE "r8g8b8a8_unorm")
    ELSE format

\* convert_memory_heap_to_flags: only the CPU heaps get the GL_MAP_* bits.
heap_is_mappable(heap) == heap \in {"cpu_to_gpu", "gpu_to_cpu", "cpu_only"}

VARIABLES
    gl_textures,    \* texture names in use: name -> [target, internal_format, origin]
    gl_buffers,     \* buffer objects: name -> [target, mappable]
    gl_renderbuffers, \* renderbuffer objects the application created
    gl_fbos,        \* framebuffer objects: name -> [color, depth, pass]
    gl_default_depth_format, \* device_impl::_default_depth_format
    gl_views,       \* views add-ons hold: [view, resource]
    gl_last         \* record of the latest OpenGL call

glVars == <<gl_textures, gl_buffers, gl_renderbuffers, gl_fbos,
            gl_default_depth_format, gl_views, gl_last>>

glIsTexture(object) ==
    object \in DOMAIN gl_textures /\ gl_textures[object].target /= "GL_NONE"
glIsBuffer(object) == object \in DOMAIN gl_buffers
glIsRenderbuffer(object) == object \in gl_renderbuffers

\* device_impl::is_resource_handle_valid
opengl_is_resource_handle_valid(handle) ==
    CASE handle.target \in BufferTargets -> glIsBuffer(handle.object)
      [] handle.target \in TextureTargets -> glIsTexture(handle.object)
      [] handle.target = "GL_RENDERBUFFER" -> glIsRenderbuffer(handle.object)
      [] handle.target = "GL_FRAMEBUFFER_DEFAULT" ->
            handle.object /= GL_DEPTH_STENCIL_ATTACHMENT
            \/ gl_default_depth_format /= "GL_NONE"
      [] OTHER -> FALSE

\* device_impl::get_resource_from_view: handle & 0xFFFFFF00FFFFFFFF
opengl_get_resource_from_view(view) == make_resource_handle(view.target, view.object)

gl_desc(type, usage, heap, format, depth_or_layers) ==
    [type |-> type, usage |-> usage, heap |-> heap, format |-> format,
     depth_or_layers |-> depth_or_layers]

gl_no_desc == gl_desc("unknown", "undefined", "unknown", "unknown", 0)

\* The resource descriptions add-ons request from the OpenGL device.
GLResourceDescs ==
    { gl_desc("buffer", "index_buffer", "gpu_only", "unknown", 0),
      gl_desc("buffer", "undefined", "cpu_to_gpu", "unknown", 0),
      gl_desc("buffer", "undefined", "gpu_only", "unknown", 0),
      gl_desc("texture_2d", "shader_resource", "gpu_only", "r8g8b8a8_unorm", 1),
      gl_desc("texture_2d", "shader_resource", "gpu_only", "unknown", 1),
      gl_desc("surface", "shader_resource", "gpu_only", "r8g8b8a8_unorm", 1) }

gl_view_desc(type, format, first_level, first_layer) ==
    [type |-> type, format |-> format, first_level |-> first_level,
     first_layer |-> first_layer]

\* The view descriptions add-ons request from the OpenGL device.
GLViewDescs ==
    { gl_view_desc("texture_2d", "r8g8b8a8_unorm", 0, 0),
      gl_view_desc("texture_2d", "r8g8b8a8_unorm_srgb", 0, 0),
      gl_view_desc("texture_2d", "r8g8b8a8_unorm", 1, 0),
      gl_view_desc("texture_2d", "unknown", 0, 0),
      gl_view_desc("unknown", "r8g8b8a8_unorm", 0, 0) }

gl_no_call ==
    [op |-> "none", handle |-> gl_zero, desc |-> gl_no_desc, ret |-> FALSE,
     out |-> gl_zero, data |-> "null", trace |-> <<>>, valid_before |-> FALSE,
     backing |-> gl_zero]

\* The state an OpenGL handler leaves behind.
gl_effect(ret, out, textures, buffers, renderbuffers, trace, crash) ==
    [ret |-> ret, out |-> out, textures |-> textures, buffers |-> buffers,
     renderbuffers |-> renderbuffers, trace |-> trace, crash |-> crash]

gl_unchanged(ret, out, trace, crash) ==
    gl_effect(ret, out, gl_textures, gl_buffers, gl_renderbuffers, trace, crash)

\* The target create_resource picks for a description; GL_NONE when it
\* rejects the description.
create_resource_target(desc) ==
    CASE desc.type = "buffer" ->
            (CASE desc.usage = "index_buffer" -> "GL_ELEMENT_ARRAY_BUFFER"
               [] desc.usage = "vertex_buffer" -> "GL_ARRAY_BUFFER"
               [] desc.usage = "constant_buffer" -> "GL_UNIFORM_BUFFER"
               [] desc.heap = "gpu_to_cpu" -> "GL_PIXEL_PACK_BUFFER"
               [] desc.heap = "cpu_to_gpu" -> "GL_PIXEL_UNPACK_BUFFER"
               [] OTHER -> "GL_NONE")
      [] desc.type = "texture_1d" ->
            IF desc.depth_or_layers > 1 THEN "GL_TEXTURE_1D_ARRAY" ELSE "GL_TEXTURE_1D"
      [] desc.type = "texture_2d" ->
            IF desc.depth_or_layers > 1 THEN "GL_TEXTURE_2D_ARRAY" ELSE "GL_TEXTURE_2D"
      [] desc.type = "texture_3d" -> "GL_TEXTURE_3D"
      [] OTHER -> "GL_NONE"

\* device_impl::create_resource, called outside an event callback
\* (out /= _current_event_handle); object is the name glGen* returns.
opengl_create_resource(desc, object) ==
    LET target == create_resource_target(desc)
    IN  IF target = "GL_NONE"
        THEN gl_unchanged(FALSE, gl_zero, <<>>, IF ndebug THEN "none" ELSE "assert")
        ELSE IF desc.type = "buffer"
        THEN gl_effect(TRUE, make_resource_handle(target, object), gl_textures,
                 native_create(gl_buffers, object,
                     [target |-> target, mappable |-> heap_is_mappable(desc.heap)]),
                 gl_renderbuffers, <<"glGenBuffers", "glBufferStorage">>, "none")
        ELSE IF opengl_convert_format(desc.format) = "GL_NONE"
        THEN gl_unchanged(FALSE, gl_zero, <<>>, "none")
        ELSE gl_effect(TRUE, make_resource_handle(target, object),
                 native_create(gl_textures, object,
                     [target |-> target,
                      internal_format |-> opengl_convert_format(desc.format),
                      origin |-> "resource"]),
                 gl_buffers, gl_renderbuffers, <<"glGenTextures", "glTexStorage">>, "none")

\* The target create_resource_view picks for a view type.
create_resource_view_target(type) ==
    CASE type = "buffer" -> "GL_TEXTURE_BUFFER"
      [] type = "texture_1d" -> "GL_TEXTURE_1D"
      [] type = "texture_1d_array" -> "GL_TEXTURE_1D_ARRAY"
      [] type = "texture_2d" -> "GL_TEXTURE_2D"
      [] type = "texture_2d_array" -> "GL_TEXTURE_2D_ARRAY"
      [] type = "texture_2d_multisample" -> "GL_TEXTURE_2D_MULTISAMPLE"
      [] type = "texture_2d_multisample_array" -> "GL_TEXTURE_2D_MULTISAMPLE_ARRAY"
      [] type = "texture_3d" -> "GL_TEXTURE_3D"
      [] type = "texture_cube" -> "GL_TEXTURE_CUBE_MAP"
      [] type = "texture_cube_array" -> "GL_TEXTURE_CUBE_MAP_ARRAY"
      [] OTHER -> "GL_NONE"

\* The extra bits of a view handle.
view_extra_bits(alias, desc) ==
    (IF alias THEN 1 ELSE 0)
    + (IF desc.format /= format_to_default_typed(desc.format, 0)
          /\ desc.format = format_to_default_typed(desc.format, 1)
       THEN 2 ELSE 0)

\* device_impl::create_resource_view, called outside an event callback;
\* out is what the caller's slot held, object the name glGenTextures returns.
opengl_create_resource_view(resource, desc, out, object) ==
    LET target == create_resource_view_target(desc.type)
        internal_format == opengl_convert_format(desc.format)
    IN  IF resource.target \in {"GL_RENDERBUFFER", "GL_FRAMEBUFFER_DEFAULT"}
        THEN gl_unchanged(TRUE,
                 make_resource_view_handle(resource.target, resource.object,
                                           view_extra_bits(TRUE, desc)),
                 <<>>, "none")
        ELSE IF target = "GL_NONE"
        THEN gl_unchanged(FALSE, out, <<>>, IF ndebug THEN "none" ELSE "assert")
        ELSE IF internal_format = "GL_NONE"
        THEN gl_unchanged(FALSE, out, <<>>, "none")
        ELSE IF /\ target = resource.target
                /\ desc.first_level = 0 /\ desc.first_layer = 0
                /\ glIsTexture(resource.object)
                /\ gl_textures[resource.object].internal_format = internal_format
        THEN gl_unchanged(TRUE,
                 make_resource_view_handle(target, resource.object,
                                           view_extra_bits(TRUE, desc)),
                 <<>>, "none")
        ELSE gl_effect(TRUE,
                 make_resource_view_handle(target, object, view_extra_bits(FALSE, desc)),
                 native_create(gl_textures, object,
                     [target |-> IF glIsTexture(resource.object) THEN target ELSE "GL_NONE",
                      internal_format |-> internal_format, origin |-> "view"]),
                 gl_buffers, gl_renderbuffers, <<"glGenTextures", "glTextureView">>, "none")

\* device_impl::destroy_resource
opengl_destroy_resource(handle) ==
    CASE handle.target \in BufferTargets ->
            gl_effect(TRUE, gl_zero, gl_textures, native_destroy(gl_buffers, handle.object),
                      gl_renderbuffers, <<"glDeleteBuffers">>, "none")
      [] handle.target \in TextureTargets ->
            gl_effect(TRUE, gl_zero, native_destroy(gl_textures, handle.object), gl_buffers,
                      gl_renderbuffers, <<"glDeleteTextures">>, "none")
      [] handle.target = "GL_RENDERBUFFER" ->
            gl_effect(TRUE, gl_zero, gl_textures, gl_buffers,
                      gl_renderbuffers \ {handle.object}, <<"glDeleteRenderbuffers">>, "none")
      [] handle.target = "GL_FRAMEBUFFER_DEFAULT" ->
            gl_unchanged(TRUE, gl_zero, <<>>, IF ndebug THEN "none" ELSE "assert")
      [] OTHER ->
            gl_unchanged(TRUE, gl_zero, <<>>,
                         IF ndebug \/ handle.object = 0 THEN "none" ELSE "assert")

\* Fault: the alias bit is ignored.
opengl_destroy_resource_view_always(handle) == opengl_destroy_resource(handle)

\* device_impl::destroy_resource_view
opengl_destroy_resource_view(handle) ==
    IF ~has_alias_bit(handle)
    THEN opengl_destroy_resource(handle)
    ELSE gl_unchanged(TRUE, gl_zero, <<>>, "none")

\* glMapNamedBufferRange / glMapBufferRange: null unless the buffer exists
\* and its storage was created with the map bits.
glMapBufferRange(object) ==
    IF glIsBuffer(object) /\ gl_buffers[object].mappable THEN "mapped" ELSE "null"

\* device_impl::map_resource; data is what the caller's pointer held.
opengl_map_resource(resource, subresource, data) ==
    IF resource.target \in BufferTargets
    THEN IF subresource /= 0 /\ ~ndebug
         THEN [ret |-> FALSE, data |-> data, crash |-> "assert"]
         ELSE [ret |-> glMapBufferRange(resource.object) /= "null",
               data |-> glMapBufferRange(resource.object), crash |-> "none"]
    ELSE IF ~ndebug
    THEN [ret |-> FALSE, data |-> data, crash |-> "assert"]
    ELSE [ret |-> FALSE, data |-> "null", crash |-> "none"]

\* What glFramebufferTexture / glFramebufferRenderbuffer leave attached:
\* nothing when the name is not an object of that kind.
fbo_attachment(view) ==
    IF view.target \in AttachableTargets /\ glIsTexture(view.object)
    THEN [type |-> "GL_TEXTURE", object |-> view.object]
    ELSE IF view.target = "GL_RENDERBUFFER" /\ glIsRenderbuffer(view.object)
    THEN [type |-> "GL_RENDERBUFFER", object |-> view.object]
    ELSE [type |-> "GL_NONE", object |-> 0]

can_attach(view) == view.target \in AttachableTargets \cup {"GL_RENDERBUFFER"}

\* device_impl::create_render_pass.  render_targets holds the leading
\* non-zero entries of desc.render_targets; fbo_object is the name
\* glGenFramebuffers returns, complete what glCheckFramebufferStatus says.
opengl_create_render_pass(render_targets, depth_stencil, fbo_object, complete) ==
    IF /\ Len(render_targets) > 0
       /\ render_targets[1].target = "GL_FRAMEBUFFER_DEFAULT"
       /\ (depth_stencil = gl_zero \/ depth_stencil.target = "GL_FRAMEBUFFER_DEFAULT")
    THEN [ret |-> TRUE, out |-> make_render_pass_handle(0, 1, 0), fbos |-> gl_fbos,
          crash |-> "none"]
    ELSE IF \/ \E i \in 1..Len(render_targets) : ~can_attach(render_targets[i])
            \/ (depth_stencil /= gl_zero /\ ~can_attach(depth_stencil))
    THEN [ret |-> FALSE, out |-> gl_pass_zero, fbos |-> gl_fbos,
          crash |-> IF ndebug THEN "none" ELSE "assert"]
    ELSE LET color == [i \in 1..Len(render_targets) |-> fbo_attachment(render_targets[i])]
             depth == IF depth_stencil = gl_zero THEN [type |-> "GL_NONE", object |-> 0]
                      ELSE fbo_attachment(depth_stencil)
             attached == depth.type /= "GL_NONE"
                         \/ \E i \in 1..Len(color) : color[i].type /= "GL_NONE"
             has_srgb_attachment ==
                 \E i \in 1..Len(render_targets) : has_srgb_bit(render_targets[i])
             pass == make_render_pass_handle(fbo_object, Len(render_targets),
                                             IF has_srgb_attachment THEN 2 ELSE 0)
         IN  IF complete /\ attached
             THEN [ret |-> TRUE, out |-> pass,
                   fbos |-> native_create(gl_fbos, fbo_object,
                               [color |-> color, depth |-> depth, pass |-> pass]),
                   crash |-> "none"]
             ELSE [ret |-> FALSE, out |-> gl_pass_zero, fbos |-> gl_fbos, crash |-> "none"]

\* get_fbo_attachment_param for a colour attachment point
\* (GL_FRAMEBUFFER_ATTACHMENT_OBJECT_TYPE and _NAME).
get_fbo_color_attachment(fbo_object, index) ==
    IF fbo_object \in DOMAIN gl_fbos /\ index < Len(gl_fbos[fbo_object].color)
    THEN gl_fbos[fbo_object].color[index + 1]
    ELSE [type |-> "GL_NONE", object |-> 0]

\* device_impl::get_attachment for attachment_type::color:
\* [ret, out], out being what it writes to the caller's slot.
opengl_get_attachment_color(pass, index) ==
    IF pass.fbo = 0
    THEN [ret |-> TRUE,
          out |-> make_resource_view_handle("GL_FRAMEBUFFER_DEFAULT", GL_BACK, 0)]
    ELSE IF index >= pass.count
    THEN [ret |-> FALSE, out |-> gl_zero]
    ELSE LET a == get_fbo_color_attachment(pass.fbo, index)
         IN  IF a.type /= "GL_NONE"
             THEN [ret |-> TRUE,
                   out |-> make_resource_view_handle(
                               IF a.type = "GL_TEXTURE"
                               THEN (IF glIsTexture(a.object)
                                     THEN gl_textures[a.object].target ELSE "GL_NONE")
                               ELSE a.type,
                               a.object, 0)]
             ELSE [ret |-> FALSE, out |-> gl_zero]

\* device_impl::get_attachment_count for attachment_type::color
opengl_get_attachment_count_color(pass) == pass.count

\* device_impl::destroy_render_pass: glDeleteFramebuffers
opengl_destroy_render_pass(handle) == native_destroy(gl_fbos, handle.fbo)

----------------------------------------------------------------------------
(* Steps of an OpenGL run.                                                 *)

\* Live holdings of add-ons are bounded to keep the state space finite:
\* views held at a time, framebuffer objects alive at a time, render
\* targets per pass, buffer names.
MaxViews == 1
MaxPasses == 1
MaxTargets == 2
MaxBuffers == 1

\* The resource handles add-ons hold: what create_resource returned, the
\* application's renderbuffers and the default framebuffer's back buffer.
gl_created_resources ==
    {make_resource_handle(gl_textures[n].target, n) :
        n \in {m \in DOMAIN gl_textures : gl_textures[m].origin = "resource"}}
    \cup {make_resource_handle(gl_buffers[n].target, n) : n \in DOMAIN gl_buffers}

gl_resources ==
    gl_created_resources
    \cup {make_resource_handle("GL_RENDERBUFFER", n) : n \in gl_renderbuffers}
    \cup {make_resource_handle("GL_FRAMEBUFFER_DEFAULT", GL_BACK)}

\* The handle of the destroy_resource call that has just returned, if any.
gl_just_destroyed ==
    IF gl_last.op = "destroy_resource" THEN {gl_last.handle} ELSE {}

gl_held_views == {v.view : v \in gl_views}

\* The render passes add-ons hold: the default-framebuffer pass and the
\* pass of every live framebuffer object.
gl_passes ==
    {make_render_pass_handle(0, 1, 0)} \cup {gl_fbos[n].pass : n \in DOMAIN gl_fbos}

\* Sequences of at most MaxTargets held views.
RenderTargetLists ==
    UNION {[1..n -> gl_held_views] : n \in 0..MaxTargets}

gl_commit(e, call, views) ==
    /\ gl_textures' = e.textures
    /\ gl_buffers' = e.buffers
    /\ gl_renderbuffers' = e.renderbuffers
    /\ crashed' = e.crash
    /\ gl_views' = views
    /\ gl_last' = [call EXCEPT !.ret = e.ret, !.out = e.out, !.trace = e.trace]
    /\ UNCHANGED <<backend, ndebug, gl_fbos, gl_default_depth_format>>

OpenGLCreateResource ==
    \E desc \in GLResourceDescs :
    \E object \in IF desc.type = "buffer" THEN (1..MaxBuffers) \ DOMAIN gl_buffers
                  ELSE Handles \ DOMAIN gl_textures :
        /\ backend = "opengl" /\ crashed = "none"
        /\ gl_commit(opengl_create_resource(desc, object),
                     [gl_no_call EXCEPT !.op = "create_resource", !.desc = desc],
                     gl_views)

OpenGLCreateResourceView ==
    \E resource \in gl_resources \ {h \in gl_resources : h.target \in BufferTargets},
       desc \in GLViewDescs, object \in Handles \ DOMAIN gl_textures :
        /\ backend = "opengl" /\ crashed = "none"
        /\ Cardinality(gl_views) < MaxViews
        /\ LET e == opengl_create_resource_view(resource, desc, gl_stale, object)
           IN  gl_commit(e, [gl_no_call EXCEPT !.op = "create_resource_view",
                                 !.handle = resource, !.desc = desc],
                         IF e.ret
                         THEN gl_views \cup {[view |-> e.out, resource |-> resource,
                                              from |-> "create_resource_view"]}
                         ELSE gl_views)

OpenGLDestroyResource ==
    \E handle \in gl_created_resources \cup gl_just_destroyed \cup {gl_zero} :
        /\ backend = "opengl" /\ crashed = "none"
        /\ gl_commit(opengl_destroy_resource(handle),
                     [gl_no_call EXCEPT !.op = "destroy_resource", !.handle = handle,
                          !.valid_before = opengl_is_resource_handle_valid(handle)],
                     gl_views)

OpenGLDestroyResourceView ==
    \E v \in gl_views :
        /\ backend = "opengl" /\ crashed = "none"
        /\ gl_commit(opengl_destroy_resource_view(v.view),
                     [gl_no_call EXCEPT !.op = "destroy_resource_view",
                          !.handle = v.view, !.backing = v.resource, !.data = v.from,
                          !.valid_before = opengl_is_resource_handle_valid(v.resource)],
                     gl_views \ {v})

OpenGLMapResource ==
    \E resource \in gl_created_resources, subresource \in {0, 1},
       data \in {"null", "stale"} :
        /\ backend = "opengl" /\ crashed = "none"
        /\ LET m == opengl_map_resource(resource, subresource, data)
           IN  /\ crashed' = m.crash
               /\ gl_last' = [gl_no_call EXCEPT !.op = "map_resource",
                                 !.handle = resource, !.ret = m.ret, !.data = m.data]
        /\ UNCHANGED <<backend, ndebug, gl_textures, gl_buffers, gl_renderbuffers,
                       gl_fbos, gl_default_depth_format, gl_views>>

OpenGLCreateRenderPass ==
    \E render_targets \in RenderTargetLists,
       depth_stencil \in {gl_zero} \cup {v \in gl_held_views : ~(v.target \in TextureTargets)},
       fbo_object \in (1..MaxPasses) \ DOMAIN gl_fbos, complete \in BOOLEAN :
        /\ backend = "opengl" /\ crashed = "none"
        /\ LET e == opengl_create_render_pass(render_targets, depth_stencil,
                                              fbo_object, complete)
           IN  /\ gl_fbos' = e.fbos
               /\ crashed' = e.crash
               /\ gl_last' = [gl_no_call EXCEPT !.op = "create_render_pass",
                                 !.ret = e.ret, !.out = e.out]
        /\ UNCHANGED <<backend, ndebug, gl_textures, gl_buffers, gl_renderbuffers,
                       gl_default_depth_format, gl_views>>

OpenGLDestroyRenderPass ==
    \E handle \in gl_passes :
        /\ backend = "opengl" /\ crashed = "none"
        /\ gl_fbos' = opengl_destroy_render_pass(handle)
        /\ gl_last' = [gl_no_call EXCEPT !.op = "destroy_render_pass", !.out = handle]
        /\ UNCHANGED <<backend, ndebug, crashed, gl_textures, gl_buffers,
                       gl_renderbuffers, gl_default_depth_format, gl_views>>

\* An add-on asks get_attachment for a colour attachment of a pass it
\* holds and keeps the view it is given.
OpenGLGetAttachment ==
    \E pass \in gl_passes, index \in 0..(MaxTargets - 1) :
        /\ backend = "opengl" /\ crashed = "none"
        /\ Cardinality(gl_views) < MaxViews
        /\ LET r == opengl_get_attachment_color(pass, index)
           IN  /\ gl_views' = IF r.ret
                              THEN gl_views \cup
                                   {[view |-> r.out,
                                     resource |-> make_resource_handle(r.out.target,
                                                                       r.out.object),
                                     from |-> "get_attachment"]}
                              ELSE gl_views
               /\ gl_last' = [gl_no_call EXCEPT !.op = "get_attachment", !.ret = r.ret,
                                 !.out = r.out]
        /\ UNCHANGED <<backend, ndebug, crashed, gl_textures, gl_buffers, gl_renderbuffers,
                       gl_fbos, gl_default_depth_format>>

OpenGLNext ==
    \/ OpenGLGetAttachment
    \/ OpenGLCreateResource
    \/ OpenGLCreateResourceView
    \/ OpenGLDestroyResource
    \/ OpenGLDestroyResourceView
    \/ OpenGLMapResource
    \/ OpenGLCreateRenderPass
    \/ OpenGLDestroyRenderPass

----------------------------------------------------------------------------
(* Direct3D 9 device proxy: the application's calls go to the original     *)
(* device (_orig) and the proxy tracks the bound render targets in         *)
(* _current_pass, registers created objects and notifies add-ons.          *)

\* Simultaneous render target slots tracked in _current_pass->rtv.
MaxRenderTargets == 2

VARIABLES
    d3d9_rtv,       \* _current_pass->rtv: index -> surface (0 = nullptr)
    d3d9_dsv,       \* _current_pass->dsv
    d3d9_pass,      \* what the notifications so far tell an add-on about the pass
    d3d9_resources, \* _resources: the registered objects
    d3d9_app,       \* objects the application got back from Create*: name -> kind
    d3d9_last       \* record of the latest Direct3D 9 call

d3d9Vars == <<d3d9_rtv, d3d9_dsv, d3d9_pass, d3d9_resources, d3d9_app, d3d9_last>>

\* Surfaces that exist from device creation on, and the resource an add-on
\* hands back when it handles a create notification.
d3d9_back_buffer == MaxHandle + 1
d3d9_depth_buffer == MaxHandle + 2
d3d9_replacement == MaxHandle + 3

d3d9_no_call ==
    [op |-> "none", index |-> 0, surface |-> 0, hr |-> "S_OK", out |-> 0,
     trace |-> <<>>, notify |-> FALSE, handled |-> FALSE, replacement |-> 0,
     rebind |-> FALSE]

\* Direct3DDevice9::SetRenderTarget; hr is what _orig->SetRenderTarget returns.
SetRenderTarget(RenderTargetIndex, pRenderTarget, hr) ==
    IF hr /= "S_OK"
    THEN [rtv |-> d3d9_rtv, trace |-> <<"_orig">>]
    ELSE [rtv |-> [d3d9_rtv EXCEPT ![RenderTargetIndex] = pRenderTarget],
          trace |-> <<"_orig">>
              \o (IF d3d9_rtv[RenderTargetIndex] /= 0 /\ RenderTargetIndex = 0
                  THEN <<"finish_render_pass">> ELSE <<>>)
              \o (IF pRenderTarget /= 0
                  THEN (IF RenderTargetIndex = 0
                        THEN <<"begin_render_pass">> ELSE <<>>)
                       \o <<"bind_viewports">>
                  ELSE <<>>)]

\* Fault: the new surface is not compared with the tracked one.
SetDepthStencilSurface_always(pNewZStencil, hr) ==
    [dsv |-> pNewZStencil,
     trace |-> <<"_orig", "finish_render_pass", "_current_pass->dsv", "begin_render_pass">>]

\* Direct3DDevice9::SetDepthStencilSurface; "_current_pass->dsv" in the
\* trace is the assignment to the tracked surface.
SetDepthStencilSurface(pNewZStencil, hr) ==
    IF hr = "S_OK" /\ pNewZStencil /= d3d9_dsv
    THEN [dsv |-> pNewZStencil,
          trace |-> <<"_orig", "finish_render_pass", "_current_pass->dsv",
                      "begin_render_pass">>]
    ELSE [dsv |-> d3d9_dsv, trace |-> <<"_orig">>]

\* Fault: the pass is not announced again after the frame was presented.
Present_without_begin(entire_surface, hr) ==
    <<"finish_render_pass", "present">>
        \o (IF entire_surface THEN <<"on_present">> ELSE <<>>)
        \o <<"_orig">>

\* Direct3DDevice9::Present and Direct3DDevice9::PresentEx (called on an
\* extended interface): the notifications and calls they make, whatever
\* hr the original device returns.
Present(entire_surface, hr) ==
    <<"finish_render_pass", "present">>
        \o (IF entire_surface THEN <<"on_present">> ELSE <<>>)
        \o <<"_orig", "begin_render_pass">>

PresentEx(entire_surface, hr) ==
    <<"finish_render_pass", "present">>
        \o (IF entire_surface THEN <<"on_present">> ELSE <<>>)
        \o <<"_orig", "begin_render_pass">>

\* An add-on following the notifications of trace: begin_render_pass opens
\* a pass and finish_render_pass closes it; a begin while a pass is open or
\* a finish while none is open is out of order.
RECURSIVE follow_notifications(_, _)
follow_notifications(pass, trace) ==
    IF trace = <<>> THEN pass
    ELSE follow_notifications(
             CASE Head(trace) = "begin_render_pass" ->
                      IF pass = "closed" THEN "open" ELSE "out_of_order"
               [] Head(trace) = "finish_render_pass" ->
                      IF pass = "open" THEN "closed" ELSE "out_of_order"
               [] OTHER -> pass,
             Tail(trace))

\* The state a Direct3D 9 creation call leaves behind.
d3d9_effect(hr, out, resources, trace, crash) ==
    [hr |-> hr, out |-> out, resources |-> resources, trace |-> trace, crash |-> crash]

\* output_interface_object(out, h): the assertion, then *out = h.
output_interface_object(replacement) ==
    d3d9_effect("S_OK", IF replacement = 0 /\ ~ndebug THEN stale_handle ELSE replacement,
                d3d9_resources, <<"create_resource">>,
                IF replacement = 0 /\ ~ndebug THEN "assert" ELSE "none")

\* Fault: the create notification is delivered after the original call.
d3d9_create_native_then_notify(notify, object) ==
    IF object /= 0
    THEN d3d9_effect("S_OK", object, d3d9_resources \cup {object},
             <<"_orig", "register_object">>
             \o (IF notify THEN <<"create_resource">> ELSE <<>>)
             \o <<"init_resource">>, "none")
    ELSE d3d9_effect("D3DERR_INVALIDCALL", stale_handle, d3d9_resources,
             <<"_orig">> \o (IF notify THEN <<"create_resource">> ELSE <<>>), "none")

\* The part Direct3DDevice9::Create* share after the create notification was
\* skipped or left unhandled: the original call, then the registration and
\* the init notification when it succeeded.  object = 0: the call failed.
d3d9_create_native(notify, object) ==
    IF object /= 0
    THEN d3d9_effect("S_OK", object, d3d9_resources \cup {object},
             (IF notify THEN <<"create_resource">> ELSE <<>>)
             \o <<"_orig", "register_object", "init_resource">>, "none")
    ELSE d3d9_effect("D3DERR_INVALIDCALL", stale_handle, d3d9_resources,
             (IF notify THEN <<"create_resource">> ELSE <<>>) \o <<"_orig">>, "none")

\* Direct3DDevice9::CreateTexture without render target or depth-stencil
\* usage.  ppTexture / pSharedHandle: the pointer is not null.  handled and
\* replacement: what the create_resource callbacks answer when invoked.
CreateTexture(ppTexture, pSharedHandle, handled, replacement, object) ==
    IF ppTexture /\ ~pSharedHandle /\ handled
    THEN output_interface_object(replacement)
    ELSE d3d9_create_native(ppTexture /\ ~pSharedHandle, object)

\* Direct3DDevice9::CreateRenderTarget
CreateRenderTarget(Lockable, ppSurface, pSharedHandle, handled, replacement, object) ==
    IF ppSurface /\ ~pSharedHandle /\ ~Lockable /\ handled
    THEN output_interface_object(replacement)
    ELSE d3d9_create_native(ppSurface /\ ~pSharedHandle /\ ~Lockable, object)

----------------------------------------------------------------------------
(* Steps of a Direct3D 9 run.                                              *)

\* Names the runtime can give a new object; 0 stands for a failed creation.
d3d9_fresh == (Handles \ DOMAIN d3d9_app) \cup {0}

\* Colour surfaces the application holds.
d3d9_surfaces ==
    {d3d9_back_buffer} \cup {o \in DOMAIN d3d9_app : d3d9_app[o] = "surface"}

D3D9SetRenderTarget ==
    \E RenderTargetIndex \in 0..(MaxRenderTargets - 1),
       pRenderTarget \in d3d9_surfaces \cup {0}, hr \in {"S_OK", "D3DERR_INVALIDCALL"} :
        /\ backend = "d3d9" /\ crashed = "none"
        \* the runtime rejects a null render target 0
        /\ (RenderTargetIndex = 0 /\ pRenderTarget = 0) => hr /= "S_OK"
        /\ LET e == SetRenderTarget(RenderTargetIndex, pRenderTarget, hr)
           IN  /\ d3d9_rtv' = e.rtv
               /\ d3d9_pass' = follow_notifications(d3d9_pass, e.trace)
               /\ d3d9_last' = [d3d9_no_call EXCEPT !.op = "SetRenderTarget",
                                   !.index = RenderTargetIndex, !.surface = pRenderTarget,
                                   !.hr = hr, !.trace = e.trace,
                                   !.rebind = /\ d3d9_last.op = "SetRenderTarget"
                                              /\ d3d9_last.hr = "S_OK"
                                              /\ d3d9_last.index = RenderTargetIndex
                                              /\ d3d9_last.surface = pRenderTarget]
        /\ UNCHANGED <<backend, ndebug, crashed, d3d9_dsv, d3d9_resources, d3d9_app>>

D3D9SetDepthStencilSurface ==
    \E pNewZStencil \in {0, d3d9_depth_buffer}, hr \in {"S_OK", "D3DERR_INVALIDCALL"} :
        /\ backend = "d3d9" /\ crashed = "none"
        /\ LET e == SetDepthStencilSurface(pNewZStencil, hr)
           IN  /\ d3d9_dsv' = e.dsv
               /\ d3d9_pass' = follow_notifications(d3d9_pass, e.trace)
               /\ d3d9_last' = [d3d9_no_call EXCEPT !.op = "SetDepthStencilSurface",
                                   !.surface = pNewZStencil, !.hr = hr,
                                   !.trace = e.trace]
        /\ UNCHANGED <<backend, ndebug, crashed, d3d9_rtv, d3d9_resources, d3d9_app>>

D3D9Present ==
    \E entire_surface \in BOOLEAN, hr \in {"S_OK", "D3DERR_DEVICELOST"} :
        /\ backend = "d3d9" /\ crashed = "none"
        /\ d3d9_pass' = follow_notifications(d3d9_pass, Present(entire_surface, hr))
        /\ d3d9_last' = [d3d9_no_call EXCEPT !.op = "Present", !.hr = hr,
                                             !.trace = Present(entire_surface, hr)]
        /\ UNCHANGED <<backend, ndebug, crashed, d3d9_rtv, d3d9_dsv, d3d9_resources, d3d9_app>>

D3D9PresentEx ==
    \E entire_surface \in BOOLEAN, hr \in {"S_OK", "D3DERR_DEVICELOST"} :
        /\ backend = "d3d9" /\ crashed = "none"
        /\ d3d9_pass' = follow_notifications(d3d9_pass, PresentEx(entire_surface, hr))
        /\ d3d9_last' = [d3d9_no_call EXCEPT !.op = "PresentEx", !.hr = hr,
                                             !.trace = PresentEx(entire_surface, hr)]
        /\ UNCHANGED <<backend, ndebug, crashed, d3d9_rtv, d3d9_dsv, d3d9_resources, d3d9_app>>

d3d9_commit(e, call, kind) ==
    /\ d3d9_resources' = e.resources
    /\ d3d9_app' = IF e.hr = "S_OK" /\ e.crash = "none" /\ e.out /= 0
                   THEN native_create(d3d9_app, e.out, kind) ELSE d3d9_app
    /\ crashed' = e.crash
    /\ d3d9_last' = [call EXCEPT !.hr = e.hr, !.out = e.out, !.trace = e.trace]
    /\ d3d9_pass' = follow_notifications(d3d9_pass, e.trace)
    /\ UNCHANGED <<backend, ndebug, d3d9_rtv, d3d9_dsv>>

D3D9CreateTexture ==
    \E ppTexture \in BOOLEAN, pSharedHandle \in BOOLEAN, handled \in BOOLEAN,
       replacement \in {0, d3d9_replacement}, object \in d3d9_fresh :
        /\ backend = "d3d9" /\ crashed = "none"
        /\ ~ppTexture => object = 0
        /\ ~handled => replacement = 0
        /\ d3d9_commit(CreateTexture(ppTexture, pSharedHandle, handled, replacement, object),
                       [d3d9_no_call EXCEPT !.op = "CreateTexture",
                            !.notify = ppTexture /\ ~pSharedHandle,
                            !.handled = handled, !.replacement = replacement],
                       "texture")

D3D9CreateRenderTarget ==
    \E Lockable \in BOOLEAN, ppSurface \in BOOLEAN, pSharedHandle \in BOOLEAN,
       handled \in BOOLEAN, replacement \in {0, d3d9_replacement},
       object \in d3d9_fresh :
        /\ backend = "d3d9" /\ crashed = "none"
        /\ ~ppSurface => object = 0
        /\ ~handled => replacement = 0
        /\ d3d9_commit(CreateRenderTarget(Lockable, ppSurface, pSharedHandle, handled,
                                          replacement, object),
                       [d3d9_no_call EXCEPT !.op = "CreateRenderTarget",
                            !.notify = ppSurface /\ ~pSharedHandle /\ ~Lockable,
                            !.handled = handled, !.replacement = replacement],
                       "surface")

D3D9Next ==
    \/ D3D9SetRenderTarget
    \/ D3D9SetDepthStencilSurface
    \/ D3D9Present
    \/ D3D9PresentEx
    \/ D3D9CreateTexture
    \/ D3D9CreateRenderTarget

----------------------------------------------------------------------------
(* Descriptor sets.  The OpenGL device emulates them: a layout holds one   *)
(* range and a set is a flat vector of handles sized by it.  The Vulkan    *)
(* device translates updates into VkWriteDescriptorSet / VkCopyDescriptorSet *)
(* and leaves the storage to the driver.                                   *)

\* Sets allocated at a time, and descriptors in a layout's range.
MaxSets == 2
MaxDescriptorCount == 2

VARIABLES
    ds_layout,      \* the descriptor set layout created: its range (count 0: none)
    gl_sets,        \* OpenGL descriptor_set_impl objects: name -> [type, descriptors]
    vk_sets,        \* Vulkan driver's descriptor sets: name -> (binding -> descriptor)
    ds_last         \* record of the latest descriptor call

dsVars == <<ds_layout, gl_sets, vk_sets, ds_last>>

DescriptorTypes ==
    {"sampler", "sampler_with_resource_view", "shader_resource_view",
     "unordered_access_view", "constant_buffer"}

descriptor_range(type, binding, count) ==
    [type |-> type, binding |-> binding, count |-> count]

no_range == descriptor_range("none", 0, 0)

\* api::descriptor_set_write / api::descriptor_set_copy, with the fields
\* the two devices read.
descriptor_set_write(set, binding, type, sampler, view, resource) ==
    [set |-> set, binding |-> binding, array_offset |-> 0, type |-> type,
     sampler |-> sampler, view |-> view, resource |-> resource]

descriptor_set_copy(src_set, src_binding, dst_set, dst_binding, count, type) ==
    [src_set |-> src_set, src_binding |-> src_binding, src_array_offset |-> 0,
     dst_set |-> dst_set, dst_binding |-> dst_binding, dst_array_offset |-> 0,
     count |-> count, type |-> type]

ds_no_call ==
    [op |-> "none", ret |-> FALSE, trace |-> <<>>, num_ranges |-> 0,
     write |-> descriptor_set_write(0, 0, "none", 0, 0, 0),
     copy |-> descriptor_set_copy(0, 0, 0, 0, 0, "none"),
     out |-> 0]

\* std::vector::resize on a new vector: n value-initialized elements.
resize(n) == [i \in 1..n |-> 0]

\* descriptors[index] = value on the vector (index counted from 0).
assign(descriptors, index, value) == [descriptors EXCEPT ![index + 1] = value]

\* device_impl::create_descriptor_set_layout (OpenGL): ranges are the
\* ranges of the description.
opengl_create_descriptor_set_layout(ranges) ==
    IF Len(ranges) /= 1
    THEN [ret |-> FALSE, layout |-> ds_layout, out |-> 0, trace |-> <<>>]
    ELSE [ret |-> TRUE, layout |-> ranges[1], out |-> 1,
          trace |-> <<"new descriptor_set_layout_impl">>]

\* device_impl::create_descriptor_sets (OpenGL) for one set, named name.
opengl_create_descriptor_set(sets, name) ==
    native_create(sets, name,
        [type |-> ds_layout.type,
         descriptors |-> resize(ds_layout.count
             * (IF ds_layout.type = "sampler_with_resource_view" THEN 2 ELSE 1))])

\* Fault: a sampler+view pair is stored at the unscaled binding.
opengl_write_descriptor_unscaled(sets, info) ==
    LET d == sets[info.set].descriptors
    IN  [sets EXCEPT ![info.set].descriptors =
            IF info.type = "sampler_with_resource_view"
            THEN assign(assign(d, info.binding, info.sampler), info.binding + 1, info.view)
            ELSE assign(d, info.binding, info.sampler + info.view + info.resource)]

\* device_impl::update_descriptor_sets (OpenGL): one write.
opengl_write_descriptor(sets, info) ==
    LET d == sets[info.set].descriptors
    IN  [sets EXCEPT ![info.set].descriptors =
            CASE info.type = "sampler" -> assign(d, info.binding, info.sampler)
              [] info.type = "sampler_with_resource_view" ->
                    assign(assign(d, info.binding * 2 + 0, info.sampler),
                           info.binding * 2 + 1, info.view)
              [] info.type \in {"shader_resource_view", "unordered_access_view"} ->
                    assign(d, info.binding, info.view)
              [] info.type = "constant_buffer" -> assign(d, info.binding, info.resource)
              [] OTHER -> d]

\* The assertions a write makes on its handles.
opengl_write_asserts(info) ==
    CASE info.type \in {"sampler"} -> info.sampler /= 0
      [] info.type = "sampler_with_resource_view" -> info.sampler /= 0 /\ info.view /= 0
      [] info.type \in {"shader_resource_view", "unordered_access_view"} -> info.view /= 0
      [] info.type = "constant_buffer" -> info.resource /= 0
      [] OTHER -> TRUE

\* The loop of a copy, from element k on.
RECURSIVE opengl_copy_from(_, _, _)
opengl_copy_from(sets, info, k) ==
    IF k >= info.count THEN sets
    ELSE LET src == sets[info.src_set].descriptors
             dst == sets[info.dst_set].descriptors
         IN  opengl_copy_from(
                 [sets EXCEPT ![info.dst_set].descriptors =
                     IF info.type = "sampler_with_resource_view"
                     THEN LET src_binding == (info.src_binding + k) * 2
                              dst_binding == (info.dst_binding + k) * 2
                          IN  assign(assign(dst, dst_binding + 0, src[src_binding + 0 + 1]),
                                     dst_binding + 1, src[src_binding + 1 + 1])
                     ELSE assign(dst, info.dst_binding + k, src[info.src_binding + k + 1])],
                 info, k + 1)

\* Fault: every descriptor type is copied as a single handle.
opengl_copy_descriptors_flat(sets, info) ==
    opengl_copy_from(sets, [info EXCEPT !.type = "sampler"], 0)

\* device_impl::update_descriptor_sets (OpenGL): one copy.
opengl_copy_descriptors(sets, info) == opengl_copy_from(sets, info, 0)

\* device_impl::update_descriptor_sets (OpenGL): the writes, then the copies.
RECURSIVE opengl_update_descriptor_sets(_, _, _)
opengl_update_descriptor_sets(sets, writes, copies) ==
    IF writes /= <<>>
    THEN opengl_update_descriptor_sets(opengl_write_descriptor(sets, Head(writes)),
                                       Tail(writes), copies)
    ELSE IF copies /= <<>>
    THEN opengl_update_descriptor_sets(opengl_copy_descriptors(sets, Head(copies)),
                                       writes, Tail(copies))
    ELSE sets

\* device_impl::create_descriptor_set_layout (Vulkan): one binding with one
\* descriptor for every element of every range.  object = 0: the native
\* creation failed.
vulkan_create_descriptor_set_layout(ranges, object) ==
    LET internal_bindings ==
            UNION {{ranges[i].binding + k : k \in 0..(ranges[i].count - 1)}
                   : i \in 1..Len(ranges)}
    IN  IF object /= 0
        THEN [ret |-> TRUE, out |-> object, bindings |-> internal_bindings,
              trace |-> <<"vk.CreateDescriptorSetLayout">>]
        ELSE [ret |-> FALSE, out |-> 0, bindings |-> {},
              trace |-> <<"vk.CreateDescriptorSetLayout">>]

\* A descriptor as the Vulkan driver stores it.
vk_descriptor(sampler, view, buffer) ==
    [sampler |-> sampler, view |-> view, buffer |-> buffer]

\* vkAllocateDescriptorSets for one set: a descriptor per binding of the
\* layout, with content the driver does not define (stale_handle).
vkAllocateDescriptorSet(sets, name, bindings) ==
    native_create(sets, name,
        [b \in bindings |-> vk_descriptor(stale_handle, stale_handle, stale_handle)])

\* device_impl::update_descriptor_sets (Vulkan): VkWriteDescriptorSet made
\* for a write.
vulkan_write_internal(info) ==
    [dstSet |-> info.set, dstBinding |-> info.binding,
     dstArrayElement |-> info.array_offset, descriptorCount |-> 1,
     descriptorType |-> info.type,
     buffer |-> IF info.type = "constant_buffer" THEN info.resource ELSE 0,
     sampler |-> IF info.type = "constant_buffer" THEN 0 ELSE info.sampler,
     imageView |-> IF info.type = "constant_buffer" THEN 0 ELSE info.view]

\* The assertions a write makes on its handles.
vulkan_write_asserts(info) ==
    IF info.type = "constant_buffer" THEN info.resource /= 0
    ELSE /\ (info.view /= 0 \/ info.type = "sampler")
         /\ (info.sampler /= 0
             \/ info.type \notin {"sampler", "sampler_with_resource_view"})

\* device_impl::update_descriptor_sets (Vulkan): VkCopyDescriptorSet made
\* for a copy.
vulkan_copy_internal(info) ==
    [srcSet |-> info.src_set, srcBinding |-> info.src_binding,
     srcArrayElement |-> info.src_array_offset,
     dstSet |-> info.dst_set, dstBinding |-> info.dst_binding,
     dstArrayElement |-> info.dst_array_offset,
     descriptorCount |-> info.count]

\* vkUpdateDescriptorSets: one write.  The driver reads the members the
\* descriptor type uses.
vkWriteDescriptorSet(sets, w) ==
    [sets EXCEPT ![w.dstSet][w.dstBinding + w.dstArrayElement] =
        CASE w.descriptorType = "sampler" -> vk_descriptor(w.sampler, 0, 0)
          [] w.descriptorType = "sampler_with_resource_view" ->
                vk_descriptor(w.sampler, w.imageView, 0)
          [] w.descriptorType = "constant_buffer" -> vk_descriptor(0, 0, w.buffer)
          [] OTHER -> vk_descriptor(0, w.imageView, 0)]

\* vkUpdateDescriptorSets: one copy.  Every binding holds one descriptor,
\* so consecutive array elements are consecutive bindings.
vkCopyDescriptorSet(sets, c) ==
    [sets EXCEPT ![c.dstSet] =
        [b \in DOMAIN sets[c.dstSet] |->
            LET j == b - (c.dstBinding + c.dstArrayElement)
            IN  IF j >= 0 /\ j < c.descriptorCount
                THEN sets[c.srcSet][c.srcBinding + c.srcArrayElement + j]
                ELSE sets[c.dstSet][b]]]

\* vkUpdateDescriptorSets: all writes, then all copies.
RECURSIVE vkUpdateDescriptorSets(_, _, _)
vkUpdateDescriptorSets(sets, writes_internal, copies_internal) ==
    IF writes_internal /= <<>>
    THEN vkUpdateDescriptorSets(vkWriteDescriptorSet(sets, Head(writes_internal)),
                                Tail(writes_internal), copies_internal)
    ELSE IF copies_internal /= <<>>
    THEN vkUpdateDescriptorSets(vkCopyDescriptorSet(sets, Head(copies_internal)),
                                writes_internal, Tail(copies_internal))
    ELSE sets

\* device_impl::update_descriptor_sets (Vulkan)
vulkan_update_descriptor_sets(sets, writes, copies) ==
    vkUpdateDescriptorSets(sets,
        [i \in 1..Len(writes) |-> vulkan_write_internal(writes[i])],
        [i \in 1..Len(copies) |-> vulkan_copy_internal(copies[i])])

----------------------------------------------------------------------------
(* Steps of a run that works with descriptor sets.                         *)

\* The ranges add-ons describe a layout with.
DescriptorRanges ==
    {descriptor_range(type, 0, count) :
        type \in DescriptorTypes, count \in 1..MaxDescriptorCount}

\* Descriptions with no, one and two ranges.
DescriptorRangeLists ==
    {<<>>} \cup {<<r>> : r \in DescriptorRanges}
    \cup {<<r, r>> : r \in {descriptor_range("sampler", 0, 1)}}

\* The sets allocated so far.
ds_sets == IF backend = "opengl" THEN DOMAIN gl_sets ELSE DOMAIN vk_sets

\* The writes an add-on can make to the allocated sets.
DescriptorWrites ==
    {descriptor_set_write(set, binding, ds_layout.type,
         IF ds_layout.type \in {"sampler", "sampler_with_resource_view"} THEN h1 ELSE 0,
         IF ds_layout.type \in {"sampler_with_resource_view", "shader_resource_view",
                                "unordered_access_view"} THEN h2 ELSE 0,
         IF ds_layout.type = "constant_buffer" THEN h2 ELSE 0) :
        set \in ds_sets, binding \in 0..(ds_layout.count - 1),
        h1 \in {MaxHandle}, h2 \in Handles \cup {0}}

\* The copies an add-on can make between the allocated sets.
DescriptorCopies ==
    {descriptor_set_copy(src, b.src, dst, b.dst, b.count, ds_layout.type) :
        src \in ds_sets, dst \in ds_sets,
        b \in {c \in [src : 0..(ds_layout.count - 1), dst : 0..(ds_layout.count - 1),
                      count : 1..ds_layout.count] :
                  c.src + c.count <= ds_layout.count /\ c.dst + c.count <= ds_layout.count}}

CreateDescriptorSetLayout ==
    \E ranges \in DescriptorRangeLists, object \in {0, 1} :
        /\ crashed = "none" /\ backend \in {"opengl", "vulkan"}
        /\ ds_sets = {}
        /\ backend = "opengl" => object = 1
        /\ backend = "vulkan" => Len(ranges) = 1
        /\ LET e == IF backend = "opengl"
                    THEN opengl_create_descriptor_set_layout(ranges)
                    ELSE vulkan_create_descriptor_set_layout(ranges, object)
           IN  /\ ds_layout' = IF ~e.ret THEN ds_layout
                               ELSE IF backend = "opengl" THEN e.layout ELSE ranges[1]
               /\ ds_last' = [ds_no_call EXCEPT !.op = "create_descriptor_set_layout",
                                 !.ret = e.ret, !.out = e.out, !.trace = e.trace,
                                 !.num_ranges = Len(ranges)]
        /\ UNCHANGED <<backend, ndebug, crashed, gl_sets, vk_sets>>

CreateDescriptorSets ==
    \E name \in (1..MaxSets) \ ds_sets :
        /\ crashed = "none" /\ backend \in {"opengl", "vulkan"}
        /\ ds_layout /= no_range
        /\ IF backend = "opengl"
           THEN /\ gl_sets' = opengl_create_descriptor_set(gl_sets, name)
                /\ UNCHANGED vk_sets
           ELSE /\ vk_sets' = vkAllocateDescriptorSet(vk_sets, name,
                        vulkan_create_descriptor_set_layout(<<ds_layout>>, 1).bindings)
                /\ UNCHANGED gl_sets
        /\ ds_last' = [ds_no_call EXCEPT !.op = "create_descriptor_sets", !.ret = TRUE,
                          !.out = name]
        /\ UNCHANGED <<backend, ndebug, crashed, ds_layout>>

\* update_descriptor_sets with one write or one copy.
UpdateDescriptorSets ==
    \E writes \in {<<>>} \cup {<<w>> : w \in DescriptorWrites},
       copies \in {<<>>} \cup {<<c>> : c \in DescriptorCopies} :
        /\ crashed = "none" /\ backend \in {"opengl", "vulkan"}
        /\ Len(writes) + Len(copies) = 1
        /\ LET asserts == \A i \in 1..Len(writes) :
                              IF backend = "opengl" THEN opengl_write_asserts(writes[i])
                              ELSE vulkan_write_asserts(writes[i])
           IN  IF ~asserts /\ ~ndebug
               THEN crashed' = "assert" /\ UNCHANGED <<gl_sets, vk_sets>>
               ELSE /\ crashed' = "none"
                    /\ IF backend = "opengl"
                       THEN /\ gl_sets' = opengl_update_descriptor_sets(gl_sets, writes, copies)
                            /\ UNCHANGED vk_sets
                       ELSE /\ vk_sets' = vulkan_update_descriptor_sets(vk_sets, writes, copies)
                            /\ UNCHANGED gl_sets
        /\ ds_last' = [ds_no_call EXCEPT !.op = "update_descriptor_sets", !.ret = TRUE,
                          !.write = IF writes = <<>> THEN ds_no_call.write ELSE writes[1],
                          !.copy = IF copies = <<>> THEN ds_no_call.copy ELSE copies[1]]
        /\ UNCHANGED <<backend, ndebug, ds_layout>>

DescriptorsNext ==
    \/ CreateDescriptorSetLayout
    \/ CreateDescriptorSets
    \/ UpdateDescriptorSets

DescriptorsInit ==
    /\ ds_layout = no_range
    /\ gl_sets = <<>>
    /\ vk_sets = <<>>
    /\ ds_last = ds_no_call

----------------------------------------------------------------------------
(* Pipelines: create_pipeline of the OpenGL and the Vulkan device.  A call *)
(* is modelled by the sequence of native calls it makes; the objects that  *)
(* are alive afterwards follow from that sequence.                         *)

MaxPipelines == 2

VARIABLES
    pl_live,    \* the native and heap objects that are alive: <<kind, name>>
    pl_last     \* the latest call

plVars == <<pl_live, pl_last>>

\* desc.graphics.vertex_shader .. pixel_shader, in the order the code
\* compiles them.
GraphicsStages ==
    <<"vertex_shader", "hull_shader", "domain_shader", "geometry_shader", "pixel_shader">>

\* A shader_desc with what the driver does with it: "none" has code_size 0.
ShaderDescs == {"none", "compiles", "fails"}

code_size(shader) == IF shader = "none" THEN 0 ELSE 1

input_layout_element(buffer_binding, stride, instance_step_rate) ==
    [buffer_binding |-> buffer_binding, stride |-> stride,
     instance_step_rate |-> instance_step_rate]

pipeline_desc(type, shaders, shader, render_pass_template, dynamic_states, input_layout) ==
    [type |-> type, shaders |-> shaders, shader |-> shader,
     render_pass_template |-> render_pass_template,
     dynamic_states |-> dynamic_states, input_layout |-> input_layout]

no_shaders == [i \in 1..Len(GraphicsStages) |-> "none"]

no_pipeline_desc == pipeline_desc("none", no_shaders, "none", 0, <<>>, <<>>)

pl_no_call ==
    [op |-> "none", desc |-> no_pipeline_desc, num_constant_ranges |-> 0,
     link_status |-> TRUE, result |-> "VK_SUCCESS",
     ret |-> FALSE, out |-> 0, trace |-> <<>>]

\* One native call (or heap operation) on one object.
call(name, object) == <<name, object>>

\* The kind of object a call brings to life, and the kind it ends.
created_kind(name) ==
    CASE name = "glCreateProgram" -> "program"
      [] name = "glCreateShader" -> "shader"
      [] name = "glGenVertexArrays" -> "vao"
      [] name = "new pipeline_impl" -> "pipeline_impl"
      [] name = "new pipeline_layout_impl" -> "pipeline_layout_impl"
      [] name = "vkCreateShaderModule" -> "module"
      [] name \in {"vkCreateGraphicsPipelines", "vkCreateComputePipelines"} -> "pipeline"
      [] OTHER -> "none"

deleted_kind(name) ==
    CASE name = "glDeleteProgram" -> "program"
      [] name = "glDeleteShader" -> "shader"
      [] name = "delete pipeline_impl" -> "pipeline_impl"
      [] name = "vkDestroyShaderModule" -> "module"
      [] name = "vkDestroyPipeline" -> "pipeline"
      [] OTHER -> "none"

\* The objects alive after the calls of trace; a call on the name 0 creates
\* and deletes nothing.
RECURSIVE native_apply(_, _)
native_apply(live, trace) ==
    IF trace = <<>> THEN live
    ELSE LET c == Head(trace)
             next == IF c[2] = 0 THEN live
                     ELSE IF created_kind(c[1]) /= "none"
                          THEN live \cup {<<created_kind(c[1]), c[2]>>}
                          ELSE live \ {<<deleted_kind(c[1]), c[2]>>}
         IN  native_apply(next, Tail(trace))

RECURSIVE concat(_)
concat(traces) ==
    IF traces = <<>> THEN <<>> ELSE Head(traces) \o concat(Tail(traces))

\* create_shader_module (OpenGL) with existing_shader_object = false; name
\* is the object glCreateShader returns.
opengl_create_shader_module(shader, name) ==
    IF code_size(shader) = 0
    THEN [ret |-> FALSE, shader_object |-> 0, trace |-> <<>>]
    ELSE IF shader = "compiles"
         THEN [ret |-> TRUE, shader_object |-> name,
               trace |-> <<call("glCreateShader", name), call("glCompileShader", name)>>]
         ELSE [ret |-> FALSE, shader_object |-> 0,
               trace |-> <<call("glCreateShader", name), call("glCompileShader", name),
                           call("glDeleteShader", name)>>]

\* The name glCreateShader returns for the i-th stage of a call.
shader_name(i) == MaxPipelines + i

\* Fault: the shader objects are not deleted after linking.
opengl_link_program_keeps_shaders(shaders, link_status, program) ==
    LET mods == [i \in DOMAIN shaders |-> opengl_create_shader_module(shaders[i], shader_name(i))]
    IN  [failed |-> ~link_status,
         trace |-> <<call("glCreateProgram", program)>>
                   \o concat([i \in DOMAIN shaders |-> mods[i].trace])
                   \o <<call("glLinkProgram", program)>>]

\* The part create_graphics_pipeline and create_compute_pipeline (OpenGL)
\* have in common: compile and attach every stage, link, detach and delete
\* the shader objects, then test the link status and the stages.
opengl_link_program(shaders, link_status, program) ==
    LET mods == [i \in DOMAIN shaders |-> opengl_create_shader_module(shaders[i], shader_name(i))]
        attached == [i \in DOMAIN shaders |->
                        mods[i].trace \o
                        (IF mods[i].ret THEN <<call("glAttachShader", mods[i].shader_object)>>
                         ELSE <<>>)]
        detached == [i \in DOMAIN shaders |->
                        IF mods[i].shader_object /= 0
                        THEN <<call("glDetachShader", mods[i].shader_object)>>
                        ELSE <<>>]
        deleted == [i \in DOMAIN shaders |-> call("glDeleteShader", mods[i].shader_object)]
    IN  [failed |-> \/ ~link_status
                    \/ \E i \in DOMAIN shaders :
                          code_size(shaders[i]) /= 0 /\ mods[i].shader_object = 0,
         trace |-> <<call("glCreateProgram", program)>> \o concat(attached)
                   \o <<call("glLinkProgram", program)>> \o concat(detached) \o deleted]

\* device_impl::create_compute_pipeline (OpenGL).
opengl_create_compute_pipeline(desc, link_status, program) ==
    LET linked == opengl_link_program(<<desc.shader>>, link_status, program)
    IN  IF linked.failed
        THEN [ret |-> FALSE, out |-> 0,
              trace |-> linked.trace \o <<call("glDeleteProgram", program)>>]
        ELSE [ret |-> TRUE, out |-> program,
              trace |-> linked.trace \o <<call("new pipeline_impl", program)>>]

\* device_impl::create_graphics_pipeline (OpenGL).
opengl_create_graphics_pipeline(desc, link_status, program) ==
    LET linked == opengl_link_program(desc.shaders, link_status, program)
    IN  IF linked.failed
        THEN [ret |-> FALSE, out |-> 0,
              trace |-> linked.trace \o <<call("glDeleteProgram", program)>>]
        ELSE [ret |-> TRUE, out |-> program,
              trace |-> linked.trace \o <<call("new pipeline_impl", program),
                                          call("glGenVertexArrays", program)>>]

\* device_impl::create_pipeline (OpenGL), called with an out that is not
\* _current_event_handle.
opengl_create_pipeline(desc, link_status, program) ==
    CASE desc.type = "all_graphics" -> opengl_create_graphics_pipeline(desc, link_status, program)
      [] desc.type = "compute_shader" -> opengl_create_compute_pipeline(desc, link_status, program)
      [] desc.type = "vertex_shader" ->
            LET mod == opengl_create_shader_module(desc.shaders[1], program)
            IN  [ret |-> mod.ret, out |-> mod.shader_object, trace |-> mod.trace]
      [] OTHER -> [ret |-> FALSE, out |-> 0, trace |-> <<>>]

\* device_impl::create_pipeline_layout (OpenGL).
opengl_create_pipeline_layout(num_constant_ranges, layout_impl) ==
    IF num_constant_ranges > 1
    THEN [ret |-> FALSE, out |-> 0, trace |-> <<>>]
    ELSE [ret |-> TRUE, out |-> layout_impl,
          trace |-> <<call("new pipeline_layout_impl", layout_impl)>>]

\* device_impl::create_shader_module (Vulkan) for the stages with code, in
\* order, until one fails: pStages[0 .. stageCount) and the calls made.
RECURSIVE vulkan_create_shader_modules(_, _, _)
vulkan_create_shader_modules(shaders, i, acc) ==
    IF i > Len(shaders) THEN acc
    ELSE IF code_size(shaders[i]) = 0
         THEN vulkan_create_shader_modules(shaders, i + 1, acc)
         ELSE IF shaders[i] = "compiles"
              THEN vulkan_create_shader_modules(shaders, i + 1,
                       [acc EXCEPT !.pStages = Append(@, shader_name(i)),
                                   !.trace = Append(@, call("vkCreateShaderModule", shader_name(i)))])
              ELSE [acc EXCEPT !.ok = FALSE,
                               !.trace = Append(@, call("vkCreateShaderModule", 0))]

\* The dynamic states create_graphics_pipeline (Vulkan) translates.
vulkan_dynamic_states ==
    {"blend_constant", "stencil_read_mask", "stencil_write_mask", "stencil_reference_value"}

\* The loop over desc.graphics.input_layout: the vertex bindings collected
\* so far, or failure when an element disagrees with its binding.
RECURSIVE vulkan_vertex_bindings(_, _, _)
vulkan_vertex_bindings(input_layout, i, vertex_bindings) ==
    IF i > Len(input_layout) THEN [ok |-> TRUE, vertex_bindings |-> vertex_bindings]
    ELSE LET element == input_layout[i]
             input_rate == IF element.instance_step_rate > 0 THEN "INSTANCE" ELSE "VERTEX"
             found == {b \in DOMAIN vertex_bindings :
                          vertex_bindings[b].binding = element.buffer_binding}
         IN  IF found /= {}
             THEN LET it == vertex_bindings[CHOOSE b \in found : \A c \in found : b <= c]
                  IN  IF it.inputRate /= input_rate \/ it.stride /= element.stride
                      THEN [ok |-> FALSE, vertex_bindings |-> vertex_bindings]
                      ELSE vulkan_vertex_bindings(input_layout, i + 1, vertex_bindings)
             ELSE vulkan_vertex_bindings(input_layout, i + 1,
                      Append(vertex_bindings,
                             [binding |-> element.buffer_binding, stride |-> element.stride,
                              inputRate |-> input_rate]))

vulkan_destroy_shader_modules(pStages) ==
    [i \in DOMAIN pStages |-> call("vkDestroyShaderModule", pStages[i])]

\* device_impl::create_graphics_pipeline (Vulkan); result and object are
\* what vkCreateGraphicsPipelines returns.
vulkan_create_graphics_pipeline(desc, result, object) ==
    IF desc.render_pass_template = 0
    THEN [ret |-> FALSE, out |-> 0, trace |-> <<>>]
    ELSE LET stages == vulkan_create_shader_modules(desc.shaders, 1,
                           [ok |-> TRUE, pStages |-> <<>>, trace |-> <<>>])
             exit_failure ==
                 [ret |-> FALSE, out |-> 0,
                  trace |-> stages.trace \o vulkan_destroy_shader_modules(stages.pStages)]
         IN  IF ~stages.ok THEN exit_failure
             ELSE IF \E i \in DOMAIN desc.dynamic_states :
                        desc.dynamic_states[i] \notin vulkan_dynamic_states
                  THEN exit_failure
             ELSE IF ~vulkan_vertex_bindings(desc.input_layout, 1, <<>>).ok
                  THEN exit_failure
             ELSE IF result = "VK_SUCCESS"
                  THEN [ret |-> TRUE, out |-> object,
                        trace |-> stages.trace
                                  \o <<call("vkCreateGraphicsPipelines", object)>>
                                  \o vulkan_destroy_shader_modules(stages.pStages)]
                  ELSE [ret |-> FALSE, out |-> 0,
                        trace |-> stages.trace
                                  \o <<call("vkCreateGraphicsPipelines", 0)>>
                                  \o vulkan_destroy_shader_modules(stages.pStages)]

\* device_impl::create_compute_pipeline (Vulkan); failed_module is what a
\* failed vkCreateShaderModule leaves in create_info.stage.module.
vulkan_create_compute_pipeline(desc, result, object, failed_module) ==
    LET created == code_size(desc.shader) /= 0
        module == IF ~created THEN 0
                  ELSE IF desc.shader = "compiles" THEN shader_name(1) ELSE failed_module
        create == IF created
                  THEN <<call("vkCreateShaderModule",
                              IF desc.shader = "compiles" THEN module ELSE 0)>>
                  ELSE <<>>
    IN  IF created /\ desc.shader /= "compiles"
        THEN [ret |-> FALSE, out |-> 0,
              trace |-> create \o <<call("vkDestroyShaderModule", module)>>]
        ELSE IF result = "VK_SUCCESS"
             THEN [ret |-> TRUE, out |-> object,
                   trace |-> create \o <<call("vkCreateComputePipelines", object),
                                         call("vkDestroyShaderModule", module)>>]
             ELSE [ret |-> FALSE, out |-> 0,
                   trace |-> create \o <<call("vkCreateComputePipelines", 0),
                                         call("vkDestroyShaderModule", module)>>]

\* device_impl::create_pipeline (Vulkan).
vulkan_create_pipeline(desc, result, object, failed_module) ==
    CASE desc.type = "all_compute" -> vulkan_create_compute_pipeline(desc, result, object, failed_module)
      [] desc.type = "all_graphics" -> vulkan_create_graphics_pipeline(desc, result, object)
      [] OTHER -> [ret |-> FALSE, out |-> 0, trace |-> <<>>]

\* device_impl::destroy_pipeline of either device.
destroy_pipeline(handle) ==
    IF backend = "opengl"
    THEN <<call("delete pipeline_impl", handle)>>
    ELSE <<call("vkDestroyPipeline", handle)>>

DynamicStateLists == {<<>>, <<"blend_constant">>, <<"depth_bias">>}

pl_names == {o[2] : o \in pl_live}


\* The input layouts of the model: none, two elements of one binding that
\* agree, that differ in stride, that differ in input rate, and two
\* elements of two bindings.
InputLayouts ==
    {<<>>,
     <<input_layout_element(0, 1, 0), input_layout_element(0, 1, 0)>>,
     <<input_layout_element(0, 1, 0), input_layout_element(0, 2, 0)>>,
     <<input_layout_element(0, 1, 0), input_layout_element(0, 1, 1)>>,
     <<input_layout_element(0, 1, 0), input_layout_element(1, 2, 1)>>}

\* The shader stages of the model: the two tessellation stages come
\* together and there is no geometry shader.
ShaderLists ==
    {shaders \in [1..Len(GraphicsStages) -> ShaderDescs] :
        /\ (shaders[2] = "none") <=> (shaders[3] = "none")
        /\ shaders[2] = "fails" => shaders[3] = "compiles"
        /\ shaders[4] = "none"}

\* The name the driver or the heap gives the next object.
pl_fresh == CHOOSE n \in 1..MaxPipelines : n \notin pl_names /\ \A k \in 1..(n - 1) : k \in pl_names

\* The descriptions passed to create_pipeline of the OpenGL device; the
\* last one has a type the device does not know.
OpenGLPipelineDescs ==
    {pipeline_desc("all_graphics", shaders, "none", 0, <<>>, <<>>) : shaders \in ShaderLists}
    \cup {pipeline_desc("compute_shader", no_shaders, shader, 0, <<>>, <<>>) : shader \in ShaderDescs}
    \cup {pipeline_desc("vertex_shader", [no_shaders EXCEPT ![1] = shader], "none", 0, <<>>, <<>>) :
              shader \in ShaderDescs}
    \cup {pipeline_desc("all_compute", no_shaders, "none", 0, <<>>, <<>>)}

\* The descriptions passed to create_pipeline of the Vulkan device; the
\* last one has a type the device does not create.
VulkanPipelineDescs ==
    {pipeline_desc("all_graphics", shaders, "none", 1, dynamic_states, <<>>) :
        shaders \in ShaderLists, dynamic_states \in DynamicStateLists}
    \cup {pipeline_desc("all_graphics", shaders, "none", 1, <<>>, input_layout) :
              shaders \in ShaderLists, input_layout \in InputLayouts}
    \cup {pipeline_desc("all_graphics", shaders, "none", 0, <<>>, <<>>) :
              shaders \in {no_shaders, [no_shaders EXCEPT ![1] = "compiles"]}}
    \cup {pipeline_desc("all_compute", no_shaders, shader, 0, <<>>, <<>>) : shader \in ShaderDescs}
    \cup {pipeline_desc("vertex_shader", [no_shaders EXCEPT ![1] = "compiles"], "none", 0, <<>>, <<>>)}

\* create_pipeline of the OpenGL device; link_status is what the driver
\* reports for the program.
OpenGLCreatePipeline ==
    /\ backend = "opengl"
    /\ (1..MaxPipelines) \ pl_names /= {}
    /\ \E desc \in OpenGLPipelineDescs :
       \E link_status \in (IF desc.type \in {"all_graphics", "compute_shader"}
                           THEN BOOLEAN ELSE {TRUE}) :
          LET r == opengl_create_pipeline(desc, link_status, pl_fresh)
          IN  /\ pl_live' = native_apply(pl_live, r.trace)
              /\ pl_last' = [pl_no_call EXCEPT !.op = "create_pipeline", !.desc = desc,
                                               !.link_status = link_status,
                                               !.ret = r.ret, !.out = r.out, !.trace = r.trace]
    /\ UNCHANGED <<backend, ndebug, crashed>>

\* Whether create_pipeline (Vulkan) gets as far as creating the pipeline.
vulkan_reaches_native_create(desc) ==
    \/ desc.type = "all_compute" /\ desc.shader /= "fails"
    \/ /\ desc.type = "all_graphics"
       /\ desc.render_pass_template /= 0
       /\ \A i \in DOMAIN desc.shaders : desc.shaders[i] /= "fails"
       /\ \A i \in DOMAIN desc.dynamic_states : desc.dynamic_states[i] \in vulkan_dynamic_states
       /\ vulkan_vertex_bindings(desc.input_layout, 1, <<>>).ok

\* create_pipeline of the Vulkan device; result is what the driver returns
\* from creating the pipeline and failed_module what it leaves in the
\* module of a compute stage it could not create.
VulkanCreatePipeline ==
    /\ backend = "vulkan"
    /\ (1..MaxPipelines) \ pl_names /= {}
    /\ \E desc \in VulkanPipelineDescs :
       \E result \in (IF vulkan_reaches_native_create(desc)
                      THEN {"VK_SUCCESS", "VK_ERROR_OUT_OF_HOST_MEMORY"} ELSE {"VK_SUCCESS"}) :
       \E failed_module \in (IF desc.type = "all_compute" /\ desc.shader = "fails"
                             THEN {0, stale_handle} ELSE {0}) :
          LET r == vulkan_create_pipeline(desc, result, pl_fresh, failed_module)
          IN  /\ pl_live' = native_apply(pl_live, r.trace)
              /\ pl_last' = [pl_no_call EXCEPT !.op = "create_pipeline", !.desc = desc,
                                               !.result = result,
                                               !.ret = r.ret, !.out = r.out, !.trace = r.trace]
    /\ UNCHANGED <<backend, ndebug, crashed>>

\* create_pipeline_layout of the OpenGL device.
OpenGLCreatePipelineLayout ==
    /\ backend = "opengl"
    /\ (1..MaxPipelines) \ pl_names /= {}
    /\ \E num_constant_ranges \in 0..2, layout_impl \in {pl_fresh} :
          LET r == opengl_create_pipeline_layout(num_constant_ranges, layout_impl)
          IN  /\ pl_live' = native_apply(pl_live, r.trace)
              /\ pl_last' = [pl_no_call EXCEPT !.op = "create_pipeline_layout",
                                               !.num_constant_ranges = num_constant_ranges,
                                               !.ret = r.ret, !.out = r.out, !.trace = r.trace]
    /\ UNCHANGED <<backend, ndebug, crashed>>

\* destroy_pipeline with a handle create_pipeline returned.
DestroyPipeline ==
    /\ \E o \in pl_live :
          /\ o[1] \in {"pipeline_impl", "pipeline"}
          /\ pl_live' = native_apply(pl_live, destroy_pipeline(o[2]))
          /\ pl_last' = [pl_no_call EXCEPT !.op = "destroy_pipeline",
                                           !.trace = destroy_pipeline(o[2])]
    /\ UNCHANGED <<backend, ndebug, crashed>>

PipelinesNext ==
    \/ OpenGLCreatePipeline
    \/ VulkanCreatePipeline
    \/ OpenGLCreatePipelineLayout
    \/ DestroyPipeline

PipelinesInit ==
    /\ pl_live = {}
    /\ pl_last = pl_no_call

----------------------------------------------------------------------------
(* upload_texture_region of the OpenGL and the Vulkan device.  Memory is a *)
(* sequence of bytes; the byte at offset o of the source is tagged o.      *)

MaxExtent == 2
MaxPadding == 1

VARIABLES
    up_texture,     \* the bytes the destination region received, in texel order
    up_last         \* the latest call

upVars == <<up_texture, up_last>>

subresource_data(size, row_pitch, slice_pitch) ==
    [data |-> [i \in 1..size |-> i - 1], row_pitch |-> row_pitch, slice_pitch |-> slice_pitch]

no_subresource_data == subresource_data(0, 0, 0)

up_no_call ==
    [op |-> "none", data |-> no_subresource_data, width |-> 0, height |-> 0, depth |-> 0,
     format_bpp |-> 0, uploaded |-> FALSE]

\* std::memcpy(dst + dst_offset, src + src_offset, n).
memcpy(dst, dst_offset, src, src_offset, n) ==
    [i \in DOMAIN dst |->
        IF i - 1 >= dst_offset /\ i - 1 < dst_offset + n
        THEN src[(i - 1) - dst_offset + src_offset + 1]
        ELSE dst[i]]

\* for (z ...) for (y ..., dst_pixels += row_size_packed) memcpy(dst_pixels,
\*     pixels + z * slice_pitch + y * row_pitch, row_size_packed);
\* i counts the rows copied so far.
RECURSIVE copy_rows(_, _, _, _, _, _)
copy_rows(dst_pixels, data, height, depth, row_size_packed, i) ==
    IF i >= depth * height THEN dst_pixels
    ELSE LET z == i \div height
             y == i % height
         IN  copy_rows(memcpy(dst_pixels, i * row_size_packed, data.data,
                              z * data.slice_pitch + y * data.row_pitch, row_size_packed),
                       data, height, depth, row_size_packed, i + 1)

\* The driver reading a tightly packed region of total_size bytes at pixels
\* (OpenGL with the default pixel store modes, Vulkan with a buffer row
\* length and image height of zero).
read_tightly_packed(pixels, total_size) == [i \in 1..total_size |-> pixels[i]]

\* device_impl::upload_texture_region (OpenGL): the bytes passed to
\* glTexSubImage.
opengl_upload_texture_region(data, width, height, depth, bpp) ==
    LET row_size_packed == width * bpp
        slice_size_packed == height * row_size_packed
        total_size == depth * slice_size_packed
        pixels ==
            IF \/ row_size_packed /= data.row_pitch /\ height = 1
               \/ slice_size_packed /= data.slice_pitch /\ depth = 1
            THEN copy_rows([i \in 1..total_size |-> 0], data, height, depth, row_size_packed, 0)
            ELSE data.data
    IN  [uploaded |-> TRUE, texture |-> read_tightly_packed(pixels, total_size)]

\* device_impl::upload_texture_region (Vulkan): the content of the upload
\* buffer copied to the texture; created and mapped are the results of
\* vmaCreateBuffer and vmaMapMemory, immediate whether a queue has an
\* immediate command list.
vulkan_upload_texture_region(data, width, height, depth, bpp, created, mapped, immediate) ==
    LET row_size_packed == width * bpp
        slice_size_packed == height * row_size_packed
        total_size == depth * slice_size_packed
        mapped_data ==
            IF /\ (row_size_packed = data.row_pitch \/ height = 1)
               /\ (slice_size_packed = data.slice_pitch \/ depth = 1)
            THEN memcpy([i \in 1..total_size |-> 0], 0, data.data, 0, total_size)
            ELSE copy_rows([i \in 1..total_size |-> 0], data, height, depth, row_size_packed, 0)
    IN  IF created /\ mapped /\ immediate
        THEN [uploaded |-> TRUE, texture |-> read_tightly_packed(mapped_data, total_size)]
        ELSE [uploaded |-> FALSE, texture |-> up_texture]

\* The number of bytes the source must have for the rows of the region.
up_source_size(width, height, depth, bpp, row_pitch, slice_pitch) ==
    (depth - 1) * slice_pitch + (height - 1) * row_pitch + width * bpp

\* upload_texture_region with a box of width x height x depth texels of
\* bpp bytes and pitches that are at least the packed sizes.
UploadTextureRegion ==
    /\ \E width \in 1..MaxExtent, height \in 1..MaxExtent, depth \in 1..MaxExtent, bpp \in 1..2 :
       \E row_pitch \in (width * bpp)..(width * bpp + MaxPadding) :
       \E slice_pitch \in (height * width * bpp)..(height * row_pitch + MaxPadding) :
       \E created \in BOOLEAN, mapped \in BOOLEAN, immediate \in BOOLEAN :
          /\ backend = "opengl" => created /\ mapped /\ immediate
          /\ ~created => mapped /\ immediate
          /\ ~mapped => immediate
          /\ LET size == up_source_size(width, height, depth, bpp, row_pitch, slice_pitch)
                 data == subresource_data(IF size < depth * height * width * bpp
                                          THEN depth * height * width * bpp ELSE size,
                                          row_pitch, slice_pitch)
                 r == IF backend = "opengl"
                      THEN opengl_upload_texture_region(data, width, height, depth, bpp)
                      ELSE vulkan_upload_texture_region(data, width, height, depth, bpp,
                                                        created, mapped, immediate)
             IN  /\ up_texture' = r.texture
                 /\ up_last' = [op |-> "upload_texture_region", data |-> data, width |-> width,
                                height |-> height, depth |-> depth, format_bpp |-> bpp,
                                uploaded |-> r.uploaded]
    /\ UNCHANGED <<backend, ndebug, crashed>>

UploadInit ==
    /\ up_texture = <<>>
    /\ up_last = up_no_call

----------------------------------------------------------------------------
(* Query pools: create_query_pool and destroy_query_pool of the OpenGL and *)
(* the Vulkan device.                                                      *)

MaxQueues == 2
MaxQueryPools == 2
MaxQueries == 2

VARIABLES
    qp_pools,   \* pool -> the state of each of its queries
    qp_last     \* the latest call

qpVars == <<qp_queues, qp_pools, qp_last>>

QueryTypes == {"occlusion", "timestamp", "pipeline_statistics"}

qp_no_call == [op |-> "none", type |-> "none", count |-> 0, ret |-> FALSE, out |-> 0]

\* The queues a Vulkan device is created with (vkCreateDevice creates one
\* command_queue_impl per requested queue; only a queue of a graphics
\* family has an immediate command list).
QueueLists == UNION {[1..n -> BOOLEAN] : n \in 1..MaxQueues}

\* device_impl::create_query_pool (OpenGL): glGenQueries reserves the
\* names, glQueryCounter or glBeginQuery/glEndQuery creates each object.
opengl_create_query_pool(type, size, result) ==
    IF type = "pipeline_statistics"
    THEN [ret |-> FALSE, out |-> 0, queries |-> <<>>]
    ELSE [ret |-> TRUE, out |-> result, queries |-> [i \in 1..size |-> "object"]]

\* device_impl::create_query_pool (Vulkan): the queries of a new pool are
\* undefined until vkCmdResetQueryPool, recorded on the first immediate
\* command list and flushed, has reset them.
vulkan_create_query_pool(queues, type, count, result, pool) ==
    IF result = "VK_SUCCESS"
    THEN LET created == [i \in 1..count |-> "undefined"]
             has_immediate == \E q \in DOMAIN queues : queues[q]
         IN  [ret |-> TRUE, out |-> pool,
              queries |-> IF has_immediate
                          THEN [i \in 1..count |-> "reset"]
                          ELSE created]
    ELSE [ret |-> FALSE, out |-> 0, queries |-> <<>>]

\* create_query_pool of either device.
CreateQueryPool ==
    /\ \E type \in QueryTypes, count \in 1..MaxQueries,
          result \in {"VK_SUCCESS", "VK_ERROR_OUT_OF_DEVICE_MEMORY"},
          pool \in (1..MaxQueryPools) \ DOMAIN qp_pools :
          /\ backend = "opengl" => result = "VK_SUCCESS"
          /\ LET r == IF backend = "opengl"
                      THEN opengl_create_query_pool(type, count, pool)
                      ELSE vulkan_create_query_pool(qp_queues, type, count, result, pool)
             IN  /\ qp_pools' = IF r.ret
                                THEN [p \in DOMAIN qp_pools \cup {r.out} |->
                                         IF p = r.out THEN r.queries ELSE qp_pools[p]]
                                ELSE qp_pools
                 /\ qp_last' = [op |-> "create_query_pool", type |-> type, count |-> count,
                                ret |-> r.ret, out |-> r.out]
    /\ UNCHANGED <<backend, ndebug, crashed, qp_queues>>

\* destroy_query_pool of either device with a handle create_query_pool
\* returned.
DestroyQueryPool ==
    /\ \E handle \in DOMAIN qp_pools :
          /\ qp_pools' = [p \in DOMAIN qp_pools \ {handle} |-> qp_pools[p]]
          /\ qp_last' = [qp_no_call EXCEPT !.op = "destroy_query_pool", !.out = handle]
    /\ UNCHANGED <<backend, ndebug, crashed, qp_queues>>

QueriesInit ==
    /\ qp_pools = <<>>
    /\ qp_last = qp_no_call

----------------------------------------------------------------------------
(* Threads on one Vulkan device.  An operation is the sequence of steps    *)
(* its code takes on the device mutex, the registry tables, the driver and *)
(* the heap; threads take their steps in any interleaving.                 *)

MaxThreads == 2

VARIABLES
    mt_mutex,   \* the thread that holds _mutex, 0 when it is free
    mt_threads  \* thread -> the operation it is in and how far it got

mtVars == <<mt_mutex, mt_threads>>

Threads == 1..MaxThreads

step(kind, what) == <<kind, what>>

\* { const std::lock_guard<std::mutex> lock(_mutex); ... }
lock_guard(steps) ==
    <<step("lock", "_mutex")>> \o steps \o <<step("unlock", "_mutex")>>

\* The registry functions of reshade_api_device.hpp.
registry_steps(op) ==
    CASE op \in {"lookup_resource", "register_image", "register_buffer",
                 "unregister_image", "unregister_buffer"} ->
            lock_guard(<<step("access", "_resources")>>)
      [] op \in {"lookup_resource_view", "register_image_view", "register_buffer_view",
                 "unregister_image_view", "unregister_buffer_view"} ->
            lock_guard(<<step("access", "_views")>>)
      [] op \in {"lookup_render_pass", "register_render_pass", "unregister_render_pass"} ->
            lock_guard(<<step("access", "_render_pass_list")>>)
      [] op \in {"lookup_framebuffer", "register_framebuffer", "unregister_framebuffer"} ->
            lock_guard(<<step("access", "_framebuffer_list")>>)

RegistryOps ==
    {"lookup_resource", "register_image", "unregister_buffer", "lookup_resource_view",
     "register_buffer_view", "unregister_image_view", "lookup_render_pass",
     "register_render_pass", "unregister_render_pass", "lookup_framebuffer",
     "register_framebuffer", "unregister_framebuffer"}

\* Fault: destroy_render_pass takes the mutex before it calls the driver.
device_steps_locking_early(op) ==
    lock_guard(<<step("native", "vkDestroyRenderPass"),
                 step("native", "vkDestroyFramebuffer"),
                 step("access", "_render_pass_list"),
                 step("access", "_framebuffer_list")>>)

\* The operations of reshade_api_device.cpp on their successful path.
device_steps(op) ==
    CASE op = "create_render_pass" ->
            <<step("native", "vkCreateRenderPass"), step("native", "vkCreateFramebuffer")>>
            \o lock_guard(<<step("access", "_render_pass_list"),
                            step("access", "_framebuffer_list"),
                            step("heap", "new render_pass_impl")>>)
      [] op = "destroy_render_pass" ->
            <<step("native", "vkDestroyRenderPass"), step("native", "vkDestroyFramebuffer")>>
            \o lock_guard(<<step("access", "_render_pass_list"),
                            step("access", "_framebuffer_list"),
                            step("heap", "delete pass_impl")>>)
      [] op = "destroy_resource" ->
            registry_steps("lookup_resource")
            \o <<step("native", "vkDestroyImage")>>
            \o lock_guard(<<step("access", "_resources")>>)
      [] op = "destroy_resource_view" ->
            registry_steps("lookup_resource_view")
            \o <<step("native", "vkDestroyImageView")>>
            \o lock_guard(<<step("access", "_views")>>)
      [] op = "get_attachment" ->
            lock_guard(<<step("access", "_framebuffer_list"),
                         step("access", "_render_pass_list")>>)
      [] op = "get_attachment_count" ->
            lock_guard(<<step("access", "_render_pass_list")>>)
      [] op = "create_graphics_pipeline" ->
            <<step("native", "vkCreateShaderModule")>>
            \o lock_guard(<<step("access", "_framebuffer_list")>>)
            \o <<step("native", "vkCreateGraphicsPipelines"),
                 step("native", "vkDestroyShaderModule")>>
      [] op = "create_pipeline_layout" ->
            <<step("native", "vkCreatePipelineLayout"),
              step("access", "_pipeline_layout_list"),
              step("native", "vkDestroyDescriptorSetLayout")>>
      [] op = "destroy_pipeline_layout" ->
            <<step("access", "_pipeline_layout_list"),
              step("native", "vkDestroyPipelineLayout")>>

DeviceOps ==
    {"create_render_pass", "destroy_render_pass", "destroy_resource", "destroy_resource_view",
     "get_attachment", "get_attachment_count", "create_graphics_pipeline",
     "create_pipeline_layout", "destroy_pipeline_layout"}

\* The steps of an operation a thread can call.
mt_steps(op) == IF op \in RegistryOps THEN registry_steps(op) ELSE device_steps(op)

\* A thread: the operation it is in ("none" between calls), the step it is
\* at, whether it is inside the table access of that step, and the table
\* accesses it has made since it last took the mutex.
mt_idle == [op |-> "none", pc |-> 0, inside |-> FALSE, accesses |-> 0]

\* The step thread t is at.
mt_current(t) ==
    IF mt_threads[t].op = "none" THEN step("none", "none")
    ELSE mt_steps(mt_threads[t].op)[mt_threads[t].pc]

\* Thread t has taken its step: it goes on to the next one, or returns.
mt_advance(t, accesses) ==
    IF mt_threads[t].pc = Len(mt_steps(mt_threads[t].op))
    THEN [mt_threads EXCEPT ![t] = mt_idle]
    ELSE [mt_threads EXCEPT ![t] = [@ EXCEPT !.pc = @ + 1, !.inside = FALSE,
                                             !.accesses = accesses]]

\* A thread calls an operation of the device.
ThreadCall(t) ==
    /\ mt_threads[t].op = "none"
    /\ \E op \in RegistryOps \cup DeviceOps :
          mt_threads' = [mt_threads EXCEPT ![t] = [mt_idle EXCEPT !.op = op, !.pc = 1]]
    /\ UNCHANGED mt_mutex

\* std::mutex::lock: the thread waits until the mutex is free.
ThreadLock(t) ==
    /\ mt_current(t)[1] = "lock"
    /\ mt_mutex = 0
    /\ mt_mutex' = t
    /\ mt_threads' = mt_advance(t, 0)

ThreadUnlock(t) ==
    /\ mt_current(t)[1] = "unlock"
    /\ mt_mutex' = 0
    /\ mt_threads' = mt_advance(t, 0)

\* A table access begins and ends; other threads can take steps between.
ThreadBeginAccess(t) ==
    /\ mt_current(t)[1] = "access"
    /\ ~mt_threads[t].inside
    /\ mt_threads' = [mt_threads EXCEPT ![t].inside = TRUE]
    /\ UNCHANGED mt_mutex

ThreadEndAccess(t) ==
    /\ mt_current(t)[1] = "access"
    /\ mt_threads[t].inside
    /\ mt_threads' = mt_advance(t, mt_threads[t].accesses + 1)
    /\ UNCHANGED mt_mutex

\* A call into the driver, or an allocation on the heap.
ThreadNativeCall(t) ==
    /\ mt_current(t)[1] \in {"native", "heap"}
    /\ mt_threads' = mt_advance(t, mt_threads[t].accesses)
    /\ UNCHANGED mt_mutex

ThreadsInit ==
    /\ mt_mutex = 0
    /\ mt_threads = [t \in Threads |-> mt_idle]

----------------------------------------------------------------------------
(* Render passes of the Vulkan device: create_render_pass,                 *)
(* destroy_render_pass and the two side tables they keep.                  *)

MaxRenderPasses == 2

VARIABLES
    rp_render_pass_list,    \* device_impl::_render_pass_list: VkRenderPass -> render_pass_data
    rp_framebuffer_list,    \* device_impl::_framebuffer_list: VkFramebuffer -> framebuffer_data
    rp_passes,              \* the render_pass_impl objects alive: handle -> its fields
    rp_last                 \* the latest call

rpVars == <<rp_render_pass_list, rp_framebuffer_list, rp_passes, rp_last>>

DepthStencilFormats == {"d16_unorm", "s8_uint", "d24_unorm_s8_uint"}

\* aspect_flags_from_format
aspect_flags_from_format(format) ==
    CASE format = "d16_unorm" -> {"VK_IMAGE_ASPECT_DEPTH_BIT"}
      [] format = "s8_uint" -> {"VK_IMAGE_ASPECT_STENCIL_BIT"}
      [] format = "d24_unorm_s8_uint" ->
            {"VK_IMAGE_ASPECT_DEPTH_BIT", "VK_IMAGE_ASPECT_STENCIL_BIT"}
      [] OTHER -> {"VK_IMAGE_ASPECT_COLOR_BIT"}

\* render_pass_desc: render_targets is the list of views up to the first
\* null handle, depth_stencil a view or 0.
render_pass_desc(render_targets, render_targets_format, depth_stencil, depth_stencil_format) ==
    [render_targets |-> render_targets, render_targets_format |-> render_targets_format,
     depth_stencil |-> depth_stencil, depth_stencil_format |-> depth_stencil_format]

no_render_pass_desc == render_pass_desc(<<>>, <<>>, 0, "unknown")

rp_no_call ==
    [op |-> "none", desc |-> no_render_pass_desc, ret |-> FALSE, out |-> 0,
     render_pass |-> 0, fbo |-> 0, num_color_attachments |-> 0]

\* The attachments create_render_pass collects for the two tables.
framebuffer_data(desc) ==
    LET color == [i \in DOMAIN desc.render_targets |->
                     [view |-> desc.render_targets[i],
                      type |-> {"VK_IMAGE_ASPECT_COLOR_BIT"}]]
        depth == IF desc.depth_stencil /= 0
                 THEN <<[view |-> desc.depth_stencil,
                         type |-> aspect_flags_from_format(desc.depth_stencil_format)]>>
                 ELSE <<>>
    IN  [attachments |-> [i \in DOMAIN (color \o depth) |-> (color \o depth)[i].view],
         attachment_types |-> [i \in DOMAIN (color \o depth) |-> (color \o depth)[i].type]]

render_pass_data(desc) ==
    LET color == [i \in DOMAIN desc.render_targets |->
                     aspect_flags_from_format(desc.render_targets_format[i])]
        depth == IF desc.depth_stencil /= 0
                 THEN <<aspect_flags_from_format(desc.depth_stencil_format)>>
                 ELSE <<>>
    IN  [attachments |-> [i \in DOMAIN (color \o depth) |->
                             [format_flags |-> (color \o depth)[i]]]]

\* What a call leaves in the tables and on the heap.
rp_effect(ret, out, render_pass_list, framebuffer_list, passes) ==
    [ret |-> ret, out |-> out, render_pass_list |-> render_pass_list,
     framebuffer_list |-> framebuffer_list, passes |-> passes]

\* Fault: create_render_pass registers the render pass only.
vulkan_create_render_pass_without_framebuffer(desc, render_pass, fbo, pass_impl) ==
    rp_effect(TRUE, pass_impl,
              emplace(rp_render_pass_list, render_pass, render_pass_data(desc)),
              rp_framebuffer_list,
              emplace(rp_passes, pass_impl, [render_pass |-> render_pass, fbo |-> fbo]))

\* device_impl::create_render_pass.  render_pass = 0: vk.CreateRenderPass
\* failed; fbo = 0: vk.CreateFramebuffer failed.
vulkan_create_render_pass(desc, render_pass, fbo, pass_impl) ==
    IF render_pass = 0 \/ fbo = 0
    THEN rp_effect(FALSE, 0, rp_render_pass_list, rp_framebuffer_list, rp_passes)
    ELSE rp_effect(TRUE, pass_impl,
                   emplace(rp_render_pass_list, render_pass, render_pass_data(desc)),
                   emplace(rp_framebuffer_list, fbo, framebuffer_data(desc)),
                   emplace(rp_passes, pass_impl, [render_pass |-> render_pass, fbo |-> fbo]))

\* device_impl::destroy_render_pass
vulkan_destroy_render_pass(handle) ==
    IF handle = 0
    THEN rp_effect(TRUE, 0, rp_render_pass_list, rp_framebuffer_list, rp_passes)
    ELSE rp_effect(TRUE, 0,
                   erase(rp_render_pass_list, rp_passes[handle].render_pass),
                   erase(rp_framebuffer_list, rp_passes[handle].fbo),
                   erase(rp_passes, handle))

\* The number of colour attachments create_graphics_pipeline counts in the
\* framebuffer table for a render pass template.
num_color_attachments(framebuffer_list, pass_impl) ==
    LET types == framebuffer_list[pass_impl.fbo].attachment_types
    IN  Cardinality({i \in DOMAIN types : types[i] = {"VK_IMAGE_ASPECT_COLOR_BIT"}})

\* device_impl::get_attachment_count
vulkan_get_attachment_count(render_pass_list, pass_impl, type) ==
    LET attachments == render_pass_list[pass_impl.render_pass].attachments
    IN  Cardinality({i \in DOMAIN attachments : type \in attachments[i].format_flags})

\* The descriptions add-ons pass: up to MaxTargets colour views and a depth
\* stencil view with a depth-stencil format, or none.
RenderPassDescs ==
    {render_pass_desc([i \in 1..n |-> i], [i \in 1..n |-> "r8g8b8a8_unorm"], ds, dsf) :
        n \in 0..MaxTargets, ds \in {0, MaxTargets + 1}, dsf \in DepthStencilFormats}

rp_commit(e, record) ==
    /\ rp_render_pass_list' = e.render_pass_list
    /\ rp_framebuffer_list' = e.framebuffer_list
    /\ rp_passes' = e.passes
    /\ rp_last' = [record EXCEPT !.ret = e.ret, !.out = e.out]
    /\ UNCHANGED <<backend, ndebug, crashed>>

\* Names in use by the render passes and framebuffers that are alive.
rp_live(field) == {rp_passes[p][field] : p \in DOMAIN rp_passes}

VulkanCreateRenderPass ==
    \E desc \in RenderPassDescs :
    \E render_pass \in {0} \cup ((1..MaxRenderPasses) \ rp_live("render_pass")),
       fbo \in {0} \cup ((1..MaxRenderPasses) \ rp_live("fbo")),
       pass_impl \in (1..MaxRenderPasses) \ DOMAIN rp_passes :
        /\ desc.depth_stencil = 0 => desc.depth_stencil_format = "d16_unorm"
        /\ render_pass = 0 => fbo = 0
        /\ rp_commit(vulkan_create_render_pass(desc, render_pass, fbo, pass_impl),
                     [rp_no_call EXCEPT !.op = "create_render_pass", !.desc = desc,
                                        !.render_pass = render_pass, !.fbo = fbo])

VulkanDestroyRenderPass ==
    \E handle \in {0} \cup DOMAIN rp_passes :
        rp_commit(vulkan_destroy_render_pass(handle),
                  [rp_no_call EXCEPT !.op = "destroy_render_pass",
                       !.render_pass = IF handle = 0 THEN 0 ELSE rp_passes[handle].render_pass,
                       !.fbo = IF handle = 0 THEN 0 ELSE rp_passes[handle].fbo])

\* create_graphics_pipeline with a render pass as its template, up to the
\* point where it has counted the colour attachments.
VulkanCountColorAttachments ==
    \E handle \in DOMAIN rp_passes :
        /\ rp_last' = [rp_no_call EXCEPT !.op = "create_graphics_pipeline", !.out = handle,
                           !.ret = TRUE,
                           !.num_color_attachments =
                               num_color_attachments(rp_framebuffer_list, rp_passes[handle])]
        /\ UNCHANGED <<backend, ndebug, crashed, rp_render_pass_list, rp_framebuffer_list,
                       rp_passes>>

RenderPassesInit ==
    /\ rp_render_pass_list = <<>>
    /\ rp_framebuffer_list = <<>>
    /\ rp_passes = <<>>
    /\ rp_last = rp_no_call

----------------------------------------------------------------------------
(* The ring of transient descriptor pools of the Vulkan device, advanced   *)
(* by vkQueuePresentKHR.                                                   *)

MaxFrames == 10

\* VkDescriptorPool _transient_descriptor_pool[4]
NumTransientPools == 4

\* uint32_t _transient_index is kept as two 16-bit halves.
HalfRange == 2^16

uint32(hi, lo) == [hi |-> hi, lo |-> lo]

\* ++x on a uint32_t
uint32_increment(x) ==
    IF x.lo + 1 < HalfRange THEN uint32(x.hi, x.lo + 1)
    ELSE uint32((x.hi + 1) % HalfRange, 0)

\* x % n on a uint32_t, for n below 2^15
uint32_mod(x, n) == ((x.hi % n) * (HalfRange % n) + (x.lo % n)) % n

VARIABLES
    tp_push_descriptors,    \* vk.CmdPushDescriptorSetKHR != nullptr
    tp_index,               \* device_impl::_transient_index
    tp_resets,              \* pool -> the number of vk.ResetDescriptorPool calls on it
    tp_recent,              \* the pools that were current in the latest frames, newest last
    tp_frames,              \* the number of vkQueuePresentKHR calls so far
    tp_last                 \* the latest call

tpVars == <<tp_push_descriptors, tp_index, tp_resets, tp_recent, tp_frames, tp_last>>

tp_no_call == [op |-> "none", tracked |-> FALSE, index |-> uint32(0, 0), reset |-> {}, recent |-> <<>>]

\* Fault: the ring is cycled as if it had three pools.
advance_transient_descriptor_pool_short(push_descriptors, index) ==
    IF push_descriptors THEN [index |-> index, reset |-> {}]
    ELSE [index |-> uint32_increment(index),
          reset |-> {uint32_mod(uint32_increment(index), NumTransientPools - 1)}]

\* device_impl::advance_transient_descriptor_pool: the new index and the
\* pools passed to vk.ResetDescriptorPool.
advance_transient_descriptor_pool(push_descriptors, index) ==
    IF push_descriptors THEN [index |-> index, reset |-> {}]
    ELSE [index |-> uint32_increment(index),
          reset |-> {uint32_mod(uint32_increment(index), NumTransientPools)}]

\* The pool descriptor sets are allocated from during a frame.
current_transient_pool(index) == uint32_mod(index, NumTransientPools)

\* The latest three entries of a frame history with one more appended.
remember(recent, pool) ==
    LET all == Append(recent, pool)
    IN  IF Len(all) <= NumTransientPools - 1 THEN all
        ELSE SubSeq(all, Len(all) - (NumTransientPools - 2), Len(all))

\* vkQueuePresentKHR.  tracked: s_vulkan_queues holds a command_queue_impl
\* for the queue.
VkQueuePresentKHR ==
    /\ tp_frames < MaxFrames
    /\ \E tracked \in BOOLEAN :
          LET a == IF tracked
                   THEN advance_transient_descriptor_pool(tp_push_descriptors, tp_index)
                   ELSE [index |-> tp_index, reset |-> {}]
          IN  /\ tp_index' = a.index
              /\ tp_resets' = [p \in DOMAIN tp_resets |->
                                  IF p \in a.reset THEN tp_resets[p] + 1 ELSE tp_resets[p]]
              /\ tp_recent' = remember(tp_recent, current_transient_pool(tp_index))
              /\ tp_last' = [op |-> "vkQueuePresentKHR", tracked |-> tracked,
                             index |-> tp_index, reset |-> a.reset,
                             recent |-> tp_recent']
    /\ tp_frames' = tp_frames + 1
    /\ UNCHANGED <<backend, ndebug, crashed, tp_push_descriptors>>

\* At construction the index is 0 and no pool has been reset.
TransientInit ==
    /\ tp_push_descriptors = TRUE
    /\ tp_index = uint32(0, 0)
    /\ tp_resets = [p \in 0..(NumTransientPools - 1) |-> 0]
    /\ tp_recent = <<>>
    /\ tp_frames = 0
    /\ tp_last = tp_no_call

----------------------------------------------------------------------------
(* Two threads on one Vulkan device: one in destroy_resource, one in       *)
(* create_resource, while a third asks is_resource_handle_valid.  The      *)
(* driver may give a new object the handle of one that has been destroyed. *)

VARIABLES
    ru_objects,     \* the native objects alive: handle -> the create info they were made with
    ru_destroy,     \* the thread in destroy_resource: its step and handle
    ru_create,      \* the thread in create_resource: its step, handle and create info
    ru_valid        \* the latest is_resource_handle_valid call

ruVars == <<ru_objects, ru_destroy, ru_create, ru_valid>>

ru_idle == [pc |-> "idle", handle |-> 0, create_info |-> vulkan_convert_resource_desc(no_desc)]

ru_no_call == [handle |-> 0, ret |-> FALSE, alive |-> FALSE]

\* destroy_resource: lookup_resource on a resource the caller created.
DestroyResourceLookup ==
    /\ ru_destroy.pc = "idle"
    /\ \E handle \in DOMAIN vk_resources \cap DOMAIN ru_objects :
          /\ ~(ru_create.pc = "created" /\ ru_create.handle = handle)
          /\ ru_destroy' = [ru_idle EXCEPT !.pc = "looked_up", !.handle = handle]
    /\ UNCHANGED <<vk_resources, ru_objects, ru_create, ru_valid>>

\* destroy_resource: vk.DestroyImage / vmaDestroyImage and the like.
DestroyResourceNative ==
    /\ ru_destroy.pc = "looked_up"
    /\ ru_objects' = erase(ru_objects, ru_destroy.handle)
    /\ ru_destroy' = [ru_destroy EXCEPT !.pc = "destroyed"]
    /\ UNCHANGED <<vk_resources, ru_create, ru_valid>>

\* destroy_resource: _resources.erase under the mutex.
DestroyResourceErase ==
    /\ ru_destroy.pc = "destroyed"
    /\ vk_resources' = unregister_resource(vk_resources, ru_destroy.handle)
    /\ ru_destroy' = ru_idle
    /\ UNCHANGED <<ru_objects, ru_create, ru_valid>>

\* create_resource: vk.CreateImage / vmaCreateImage and the like; the
\* driver returns a handle no live object has.
CreateResourceNative ==
    /\ ru_create.pc = "idle"
    /\ \E desc \in ResourceDescs, object \in Handles \ DOMAIN ru_objects :
          /\ desc.type /= "surface"
          /\ ru_objects' = emplace(ru_objects, object, vulkan_convert_resource_desc(desc))
          /\ ru_create' = [pc |-> "created", handle |-> object,
                           create_info |-> vulkan_convert_resource_desc(desc)]
    /\ UNCHANGED <<vk_resources, ru_destroy, ru_valid>>

\* create_resource: register_image / register_buffer.
CreateResourceRegister ==
    /\ ru_create.pc = "created"
    /\ vk_resources' = register_resource(vk_resources, ru_create.handle,
                                         ru_create.create_info, "VK_NULL_HANDLE", TRUE)
    /\ ru_create' = ru_idle
    /\ UNCHANGED <<ru_objects, ru_destroy, ru_valid>>

\* is_resource_handle_valid, with whether the native object is alive.
IsResourceHandleValid ==
    /\ \E handle \in Handles :
          ru_valid' = [handle |-> handle, ret |-> vulkan_is_resource_handle_valid(handle),
                       alive |-> handle \in DOMAIN ru_objects]
    /\ UNCHANGED <<vk_resources, ru_objects, ru_destroy, ru_create>>

ReuseInit ==
    /\ ru_objects = <<>>
    /\ ru_destroy = ru_idle
    /\ ru_create = ru_idle
    /\ ru_valid = ru_no_call

----------------------------------------------------------------------------
(* vkCreateGraphicsPipelines / vkCreateComputePipelines of the Vulkan      *)
(* layer with add-on support: each create info is offered to the add-ons   *)
(* and otherwise created by the driver, one at a time.                     *)

MaxBatch == 3

VARIABLES
    bp_pipelines,   \* the pipelines alive: handle -> "native" | "replacement"
    bp_app,         \* the handles the application holds
    bp_last         \* the latest call

bpVars == <<bp_pipelines, bp_app, bp_last>>

\* What happens to one create info: an add-on supplies a replacement, the
\* driver creates the pipeline, or the driver fails.
CreateInfoOutcomes == {"replaced", "VK_SUCCESS", "VK_ERROR_OUT_OF_HOST_MEMORY"}

bp_no_call ==
    [op |-> "none", infos |-> <<>>, result |-> "VK_SUCCESS", pPipelines |-> <<>>,
     destroyed |-> <<>>]

\* The handle the driver gives the pipeline of create info i, and the one
\* of the replacement an add-on creates for it.
bp_native(i) == i
bp_replacement(i) == MaxBatch + i

\* The loop over the create infos from element i on.  pPipelines is the
\* caller's array (0: VK_NULL_HANDLE), destroyed the handles passed to
\* vkDestroyPipeline so far.
RECURSIVE vkCreatePipelines(_, _, _, _, _)
vkCreatePipelines(infos, i, result, pPipelines, destroyed) ==
    IF i > Len(infos)
    THEN [result |-> result, pPipelines |-> pPipelines, destroyed |-> destroyed]
    ELSE IF infos[i] = "replaced"
    THEN vkCreatePipelines(infos, i + 1, result,
                           [pPipelines EXCEPT ![i] = bp_replacement(i)], destroyed)
    ELSE IF infos[i] = "VK_SUCCESS"
    THEN vkCreatePipelines(infos, i + 1, infos[i],
                           [pPipelines EXCEPT ![i] = bp_native(i)], destroyed)
    ELSE [result |-> infos[i],
          pPipelines |-> [k \in DOMAIN pPipelines |-> 0],
          destroyed |-> destroyed \o [k \in 1..(i - 1) |-> pPipelines[k]]]

\* vkCreateGraphicsPipelines or vkCreateComputePipelines with a batch of
\* create infos, called when the application holds no pipeline.
VkCreatePipelines ==
    /\ bp_app = {}
    /\ \E n \in 1..MaxBatch, op \in {"vkCreateGraphicsPipelines", "vkCreateComputePipelines"} :
       \E infos \in [1..n -> CreateInfoOutcomes] :
          LET r == vkCreatePipelines(infos, 1, "VK_SUCCESS", [k \in 1..n |-> 0], <<>>)
              made == {bp_native(k) : k \in {j \in 1..n : infos[j] = "VK_SUCCESS"
                                                 /\ \A m \in 1..j : infos[m] \in {"replaced", "VK_SUCCESS"}}}
                      \cup {bp_replacement(k) : k \in {j \in 1..n : infos[j] = "replaced"
                                                 /\ \A m \in 1..j : infos[m] \in {"replaced", "VK_SUCCESS"}}}
              gone == {r.destroyed[k] : k \in DOMAIN r.destroyed}
          IN  /\ bp_pipelines' = [h \in (DOMAIN bp_pipelines \cup made) \ gone |->
                                     IF h > MaxBatch THEN "replacement" ELSE "native"]
              /\ bp_app' = {r.pPipelines[k] : k \in DOMAIN r.pPipelines} \ {0}
              /\ bp_last' = [op |-> op, infos |-> infos, result |-> r.result,
                             pPipelines |-> r.pPipelines, destroyed |-> r.destroyed]
    /\ UNCHANGED <<backend, ndebug, crashed>>

\* vkDestroyPipeline called by the application with a pipeline it holds.
VkDestroyPipeline ==
    /\ \E pipeline \in bp_app :
          /\ bp_pipelines' = erase(bp_pipelines, pipeline)
          /\ bp_app' = bp_app \ {pipeline}
          /\ bp_last' = [bp_no_call EXCEPT !.op = "vkDestroyPipeline",
                                           !.destroyed = <<pipeline>>]
    /\ UNCHANGED <<backend, ndebug, crashed>>

BatchInit ==
    /\ bp_pipelines = <<>>
    /\ bp_app = {}
    /\ bp_last = bp_no_call

----------------------------------------------------------------------------
(* Direct3DDevice9::AddRef and Direct3DDevice9::Release called from the    *)
(* threads of the application.  A thread calls them only while it owns a   *)
(* reference; the calls of different threads interleave between the        *)
(* interlocked operation on _ref and the access to _orig.                  *)

MaxAddRefs == 2

VARIABLES
    rc_ref,         \* Direct3DDevice9::_ref
    rc_deleted,     \* how often "delete this" ran
    rc_orig,        \* the AddRef and Release calls the original device received
    rc_proxy,       \* the AddRef and Release calls the proxy received
    rc_threads,     \* per thread: position, references owned, local "ref"
    rc_freed_reads  \* the reads of a field of the proxy after "delete this"

rcVars == <<rc_ref, rc_deleted, rc_orig, rc_proxy, rc_threads, rc_freed_reads>>

rc_no_calls == [AddRef |-> 0, Release |-> 0]

\* A read of a member of the proxy (_orig, _implicit_swapchain, ...) by
\* thread t in function f.
rc_read(t, f) ==
    IF rc_deleted > 0 THEN rc_freed_reads \cup {<<t, f>>} ELSE rc_freed_reads

\* AddRef: "_orig->AddRef();"
DeviceAddRefOrig(t) ==
    /\ rc_threads[t].pc = "idle"
    /\ rc_threads[t].owned > 0
    /\ rc_proxy.AddRef < MaxAddRefs
    /\ rc_proxy' = [rc_proxy EXCEPT !.AddRef = @ + 1]
    /\ rc_freed_reads' = rc_read(t, "AddRef")
    /\ rc_orig' = [rc_orig EXCEPT !.AddRef = @ + 1]
    /\ rc_threads' = [rc_threads EXCEPT ![t].pc = "AddRef"]
    /\ UNCHANGED <<backend, ndebug, crashed, rc_ref, rc_deleted>>

\* AddRef: "return InterlockedIncrement(&_ref);"
DeviceAddRefIncrement(t) ==
    /\ rc_threads[t].pc = "AddRef"
    /\ rc_ref' = rc_ref + 1
    /\ rc_threads' = [rc_threads EXCEPT ![t].pc = "idle", ![t].owned = @ + 1]
    /\ UNCHANGED <<backend, ndebug, crashed, rc_deleted, rc_orig, rc_proxy, rc_freed_reads>>

\* Release: "const ULONG ref = InterlockedDecrement(&_ref);"
DeviceReleaseDecrement(t) ==
    /\ rc_threads[t].pc = "idle"
    /\ rc_threads[t].owned > 0
    /\ rc_proxy' = [rc_proxy EXCEPT !.Release = @ + 1]
    /\ rc_ref' = rc_ref - 1
    /\ rc_threads' = [rc_threads EXCEPT ![t].pc = "Release", ![t].owned = @ - 1,
                                        ![t].ref = rc_ref - 1]
    /\ UNCHANGED <<backend, ndebug, crashed, rc_deleted, rc_orig, rc_freed_reads>>

\* Release: "if (ref != 0) return _orig->Release(), ref;"
DeviceReleaseOrig(t) ==
    /\ rc_threads[t].pc = "Release"
    /\ rc_threads[t].ref /= 0
    /\ rc_freed_reads' = rc_read(t, "Release")
    /\ rc_orig' = [rc_orig EXCEPT !.Release = @ + 1]
    /\ rc_threads' = [rc_threads EXCEPT ![t].pc = "idle"]
    /\ UNCHANGED <<backend, ndebug, crashed, rc_ref, rc_deleted, rc_proxy>>

\* Release with ref = 0: the implicit swap chain is released, _orig is
\* copied, the proxy is deleted and the original device released.
DeviceReleaseDelete(t) ==
    /\ rc_threads[t].pc = "Release"
    /\ rc_threads[t].ref = 0
    /\ rc_freed_reads' = rc_read(t, "Release")
    /\ rc_deleted' = rc_deleted + 1
    /\ rc_orig' = [rc_orig EXCEPT !.Release = @ + 1]
    /\ rc_threads' = [rc_threads EXCEPT ![t].pc = "idle"]
    /\ UNCHANGED <<backend, ndebug, crashed, rc_ref, rc_proxy>>

\* The references owned by the threads in S.
RECURSIVE rc_total(_, _)
rc_total(owned, S) ==
    IF S = {} THEN 0
    ELSE LET t == CHOOSE x \in S : TRUE IN owned[t] + rc_total(owned, S \ {t})

RefCountInit ==
    /\ rc_ref = 1
    /\ rc_deleted = 0
    /\ rc_orig = rc_no_calls
    /\ rc_proxy = rc_no_calls
    /\ rc_threads = [t \in Threads |-> [pc |-> "idle", owned |-> IF t = 1 THEN 1 ELSE 0, ref |-> 0]]
    /\ rc_freed_reads = {}

----------------------------------------------------------------------------
(* The draw calls of the Direct3D 9 device proxy, built with add-on        *)
(* support: DrawPrimitive, DrawIndexedPrimitive, DrawPrimitiveUP and       *)
(* DrawIndexedPrimitiveUP.                                                 *)

VARIABLES
    dr_current_prim_type,   \* Direct3DDevice9::_current_prim_type
    dr_last                 \* the latest draw call

drVars == <<dr_current_prim_type, dr_last>>

PrimitiveTypes ==
    {"D3DPT_POINTLIST", "D3DPT_LINELIST", "D3DPT_LINESTRIP",
     "D3DPT_TRIANGLELIST", "D3DPT_TRIANGLESTRIP", "D3DPT_TRIANGLEFAN"}

DrawCalls ==
    {"DrawPrimitive", "DrawIndexedPrimitive", "DrawPrimitiveUP", "DrawIndexedPrimitiveUP"}

\* The add-on event a draw call raises.
draw_event(op) ==
    IF op \in {"DrawPrimitive", "DrawPrimitiveUP"} THEN "draw" ELSE "draw_indexed"

dr_no_call ==
    [op |-> "none", PrimitiveType |-> "none", previous |-> "none", handled |-> FALSE,
     trace |-> <<>>, ret |-> "D3D_OK"]

\* A draw call that notifies the add-ons of the topology every time.
draw_call_always_binding(op, PrimitiveType, current_prim_type, handled, native) ==
    [current_prim_type |-> PrimitiveType,
     trace |-> <<"bind_pipeline_states", draw_event(op)>>
               \o (IF handled THEN <<>> ELSE <<"_orig->" \o op>>),
     ret |-> IF handled THEN "D3D_OK" ELSE native]

\* One draw call: the primitive type is compared with _current_prim_type,
\* the draw event is raised, and the original device draws unless an add-on
\* handled the event.  native is what the original device returns.
draw_call(op, PrimitiveType, current_prim_type, handled, native) ==
    [current_prim_type |-> PrimitiveType,
     trace |-> (IF PrimitiveType /= current_prim_type
                THEN <<"bind_pipeline_states">> ELSE <<>>)
               \o <<draw_event(op)>>
               \o (IF handled THEN <<>> ELSE <<"_orig->" \o op>>),
     ret |-> IF handled THEN "D3D_OK" ELSE native]

DeviceDraw ==
    /\ \E op \in DrawCalls, PrimitiveType \in PrimitiveTypes, handled \in BOOLEAN,
          native \in {"D3D_OK", "D3DERR_INVALIDCALL"} :
          LET r == draw_call(op, PrimitiveType, dr_current_prim_type, handled, native)
          IN  /\ dr_current_prim_type' = r.current_prim_type
              /\ dr_last' = [op |-> op, PrimitiveType |-> PrimitiveType,
                             previous |-> dr_last.PrimitiveType, handled |-> handled,
                             trace |-> r.trace, ret |-> r.ret]
    /\ UNCHANGED <<backend, ndebug, crashed>>

\* Before the first draw _current_prim_type holds no primitive type.
DrawInit ==
    /\ dr_current_prim_type = "none"
    /\ dr_last = dr_no_call

----------------------------------------------------------------------------
(* The blend constant of a graphics pipeline: create_graphics_pipeline     *)
(* unpacks the 32-bit blend_state.blend_constant into four floats.         *)

VARIABLES
    bc_last     \* the latest decoding

bcVars == <<bc_last>>

\* The channel values the blend constants are built from.
ChannelBytes == {0, 15, 128, 255}

\* The 32-bit value with the bytes b3 b2 b1 b0, from the most significant.
packed_color(b3, b2, b1, b0) == uint32(b3 * 256 + b2, b1 * 256 + b0)

\* (x >> s) & 0xFF for a 32-bit x and a shift of at most 16.
shift_and_mask(x, s) == ((x.lo \div 2^s) + (x.hi % 256) * 2^(16 - s)) % 256

\* A float n / 255.0f.
over_255(n) == [num |-> n, den |-> 255]

\* create_graphics_pipeline (Vulkan): color_blend_state_info.blendConstants.
vulkan_blend_constants(blend_constant) ==
    <<over_255(shift_and_mask(blend_constant, 0)),
      over_255(shift_and_mask(blend_constant, 4)),
      over_255(shift_and_mask(blend_constant, 8)),
      over_255(shift_and_mask(blend_constant, 12))>>

\* create_graphics_pipeline (OpenGL): state->blend_constant.
opengl_blend_constant(blend_constant) ==
    <<over_255(shift_and_mask(blend_constant, 0)),
      over_255(shift_and_mask(blend_constant, 4)),
      over_255(shift_and_mask(blend_constant, 8)),
      over_255(shift_and_mask(blend_constant, 12))>>

bc_no_call == [op |-> "none", blend_constant |-> uint32(0, 0), channels |-> <<>>]

BlendConstants ==
    {packed_color(b3, b2, b1, b0) : b3 \in ChannelBytes, b2 \in ChannelBytes,
                                    b1 \in ChannelBytes, b0 \in ChannelBytes}

VulkanDecodeBlendConstant ==
    /\ backend = "vulkan"
    /\ \E blend_constant \in BlendConstants :
          bc_last' = [op |-> "create_graphics_pipeline", blend_constant |-> blend_constant,
                      channels |-> vulkan_blend_constants(blend_constant)]
    /\ UNCHANGED <<backend, ndebug, crashed>>

OpenGLDecodeBlendConstant ==
    /\ backend = "opengl"
    /\ \E blend_constant \in BlendConstants :
          bc_last' = [op |-> "create_graphics_pipeline", blend_constant |-> blend_constant,
                      channels |-> opengl_blend_constant(blend_constant)]
    /\ UNCHANGED <<backend, ndebug, crashed>>

BlendInit ==
    /\ bc_last = bc_no_call

----------------------------------------------------------------------------
\* The variables of the parts of a device that are checked on their own.
partVars == <<dsVars, plVars, upVars, qpVars, mtVars, rpVars, tpVars, ruVars, bpVars, rcVars, drVars, bcVars>>

vars == <<backend, ndebug, crashed, vkVars, glVars, d3d9Vars, partVars>>

VulkanInit ==
    /\ vk_resources = <<>>
    /\ vk_views = <<>>
    /\ vk_native = <<>>
    /\ vk_app = <<>>
    /\ vk_last = vk_no_call

\* The context the OpenGL device wraps has a default framebuffer, with or
\* without a depth buffer; the application owns one renderbuffer.
OpenGLInit ==
    /\ gl_textures = <<>>
    /\ gl_buffers = <<>>
    /\ gl_renderbuffers = {1}
    /\ gl_fbos = <<>>
    /\ gl_views = {}
    /\ gl_last = gl_no_call

\* The device starts with the back buffer bound as render target 0.
D3D9Init ==
    /\ d3d9_rtv = [i \in 0..(MaxRenderTargets - 1) |->
                      IF i = 0 THEN d3d9_back_buffer ELSE 0]
    /\ d3d9_dsv = 0
    /\ d3d9_pass = "open"
    /\ d3d9_resources = {}
    /\ d3d9_app = <<>>
    /\ d3d9_last = d3d9_no_call

\* Nothing has been created in any part.
PartsInit ==
    /\ DescriptorsInit
    /\ PipelinesInit
    /\ UploadInit
    /\ QueriesInit
    /\ ThreadsInit
    /\ BlendInit
    /\ DrawInit
    /\ RefCountInit
    /\ BatchInit
    /\ ReuseInit
    /\ TransientInit
    /\ RenderPassesInit

\* A device of which only one part is used.
PartInit ==
    /\ backend \in {"vulkan", "opengl"}
    /\ ndebug \in BOOLEAN
    /\ crashed = "none"
    /\ gl_default_depth_format = "GL_NONE"
    /\ VulkanInit
    /\ OpenGLInit
    /\ D3D9Init
    /\ PartsInit
    /\ qp_queues = <<TRUE>>

\* A device of which only the query pools are used; a Vulkan device has
\* the queues it was created with.
InitQueries ==
    /\ backend \in {"vulkan", "opengl"}
    /\ ndebug \in BOOLEAN
    /\ crashed = "none"
    /\ gl_default_depth_format = "GL_NONE"
    /\ VulkanInit
    /\ OpenGLInit
    /\ D3D9Init
    /\ PartsInit
    /\ qp_queues \in (IF backend = "vulkan" THEN QueueLists ELSE {<<>>})

Init ==
    /\ backend \in {"vulkan", "opengl", "d3d9"}
    /\ ndebug \in BOOLEAN
    /\ crashed = "none"
    /\ gl_default_depth_format \in
          IF backend = "opengl" THEN {"GL_NONE", "GL_DEPTH24_STENCIL8"} ELSE {"GL_NONE"}
    /\ VulkanInit
    /\ OpenGLInit
    /\ D3D9Init
    /\ PartsInit
    /\ qp_queues = <<TRUE>>

Next ==
    \/ VulkanNext /\ UNCHANGED <<glVars, d3d9Vars, partVars>>
    \/ OpenGLNext /\ UNCHANGED <<vkVars, d3d9Vars, partVars>>
    \/ D3D9Next /\ UNCHANGED <<vkVars, glVars, partVars>>

Spec == Init /\ [][Next]_vars

\* A run that works with descriptor sets only.
NextDescriptors ==
    \/ CreateDescriptorSetLayout /\ UNCHANGED <<vkVars, glVars, d3d9Vars, plVars, upVars, qpVars, mtVars, rpVars, tpVars, ruVars, bpVars, rcVars, drVars, bcVars>>
    \/ CreateDescriptorSets /\ UNCHANGED <<vkVars, glVars, d3d9Vars, plVars, upVars, qpVars, mtVars, rpVars, tpVars, ruVars, bpVars, rcVars, drVars, bcVars>>
    \/ UpdateDescriptorSets /\ UNCHANGED <<vkVars, glVars, d3d9Vars, plVars, upVars, qpVars, mtVars, rpVars, tpVars, ruVars, bpVars, rcVars, drVars, bcVars>>

SpecDescriptors == PartInit /\ [][NextDescriptors]_vars

\* A run that creates and destroys pipelines only.
NextPipelines ==
    \/ OpenGLCreatePipeline /\ UNCHANGED <<vkVars, glVars, d3d9Vars, dsVars, upVars, qpVars, mtVars, rpVars, tpVars, ruVars, bpVars, rcVars, drVars, bcVars>>
    \/ VulkanCreatePipeline /\ UNCHANGED <<vkVars, glVars, d3d9Vars, dsVars, upVars, qpVars, mtVars, rpVars, tpVars, ruVars, bpVars, rcVars, drVars, bcVars>>
    \/ OpenGLCreatePipelineLayout /\ UNCHANGED <<vkVars, glVars, d3d9Vars, dsVars, upVars, qpVars, mtVars, rpVars, tpVars, ruVars, bpVars, rcVars, drVars, bcVars>>
    \/ DestroyPipeline /\ UNCHANGED <<vkVars, glVars, d3d9Vars, dsVars, upVars, qpVars, mtVars, rpVars, tpVars, ruVars, bpVars, rcVars, drVars, bcVars>>

SpecPipelines == PartInit /\ [][NextPipelines]_vars

\* A run that uploads texture regions only.
NextUpload == UploadTextureRegion /\ UNCHANGED <<vkVars, glVars, d3d9Vars, dsVars, plVars, qpVars, mtVars, rpVars, tpVars, ruVars, bpVars, rcVars, drVars, bcVars>>

SpecUpload == PartInit /\ [][NextUpload]_vars

\* A run that creates and destroys query pools only.
NextQueries ==
    \/ CreateQueryPool /\ UNCHANGED <<vkVars, glVars, d3d9Vars, dsVars, plVars, upVars, mtVars, rpVars, tpVars, ruVars, bpVars, rcVars, drVars, bcVars>>
    \/ DestroyQueryPool /\ UNCHANGED <<vkVars, glVars, d3d9Vars, dsVars, plVars, upVars, mtVars, rpVars, tpVars, ruVars, bpVars, rcVars, drVars, bcVars>>

SpecQueries == InitQueries /\ [][NextQueries]_vars

\* Threads calling into one Vulkan device.
InitThreads == PartInit /\ backend = "vulkan"

mtRest == <<backend, ndebug, crashed, vkVars, glVars, d3d9Vars, dsVars, plVars, upVars, qpVars, rpVars, tpVars, ruVars, bpVars, rcVars, drVars, bcVars>>

NextThreads ==
    \/ \E t \in Threads : ThreadCall(t) /\ UNCHANGED mtRest
    \/ \E t \in Threads : ThreadLock(t) /\ UNCHANGED mtRest
    \/ \E t \in Threads : ThreadUnlock(t) /\ UNCHANGED mtRest
    \/ \E t \in Threads : ThreadBeginAccess(t) /\ UNCHANGED mtRest
    \/ \E t \in Threads : ThreadEndAccess(t) /\ UNCHANGED mtRest
    \/ \E t \in Threads : ThreadNativeCall(t) /\ UNCHANGED mtRest

SpecThreads == InitThreads /\ [][NextThreads]_vars

\* A Vulkan device, created with any queues, on which resources are
\* created and destroyed through the device interface.
InitCreateResource == InitQueries /\ backend = "vulkan"

NextCreateResource ==
    \/ VulkanCreateResource /\ UNCHANGED <<glVars, d3d9Vars, partVars>>
    \/ VulkanDestroyResource /\ UNCHANGED <<glVars, d3d9Vars, partVars>>

SpecCreateResource == InitCreateResource /\ [][NextCreateResource]_vars

\* A Vulkan device on which render passes are created and destroyed.
rpRest == <<vkVars, glVars, d3d9Vars, dsVars, plVars, upVars, qpVars, mtVars, tpVars, ruVars, bpVars, rcVars, drVars, bcVars>>

NextRenderPasses ==
    \/ VulkanCreateRenderPass /\ UNCHANGED rpRest
    \/ VulkanDestroyRenderPass /\ UNCHANGED rpRest
    \/ VulkanCountColorAttachments /\ UNCHANGED rpRest

SpecRenderPasses == InitThreads /\ [][NextRenderPasses]_vars

\* A Vulkan device, with or without push descriptors, that has presented
\* any number of frames and goes on presenting.
InitTransient ==
    /\ backend = "vulkan"
    /\ ndebug \in BOOLEAN
    /\ crashed = "none"
    /\ gl_default_depth_format = "GL_NONE"
    /\ VulkanInit /\ OpenGLInit /\ D3D9Init
    /\ DescriptorsInit /\ PipelinesInit /\ UploadInit /\ QueriesInit /\ ThreadsInit
    /\ RenderPassesInit /\ ReuseInit /\ BatchInit /\ RefCountInit /\ DrawInit /\ BlendInit
    /\ qp_queues = <<TRUE>>
    /\ tp_push_descriptors \in BOOLEAN
    /\ tp_index \in {uint32(0, 0)}
                     \cup {uint32(HalfRange - 1, HalfRange - k) : k \in 1..(MaxFrames \div 2)}
    /\ tp_resets = [p \in 0..(NumTransientPools - 1) |-> 0]
    /\ tp_recent = <<>>
    /\ tp_frames = 0
    /\ tp_last = tp_no_call

NextTransient ==
    VkQueuePresentKHR /\ UNCHANGED <<vkVars, glVars, d3d9Vars, dsVars, plVars, upVars, qpVars, mtVars, rpVars, ruVars, bpVars, rcVars, drVars, bcVars>>

SpecTransient == InitTransient /\ [][NextTransient]_vars

\* A Vulkan device on which resources are created and destroyed by two
\* threads.
ruRest == <<backend, ndebug, crashed, vk_views, vk_native, vk_app, vk_last, glVars, d3d9Vars, dsVars, plVars, upVars, qpVars, mtVars, rpVars, tpVars, bpVars, rcVars, drVars, bcVars>>

NextReuse ==
    \/ DestroyResourceLookup /\ UNCHANGED ruRest
    \/ DestroyResourceNative /\ UNCHANGED ruRest
    \/ DestroyResourceErase /\ UNCHANGED ruRest
    \/ CreateResourceNative /\ UNCHANGED ruRest
    \/ CreateResourceRegister /\ UNCHANGED ruRest
    \/ IsResourceHandleValid /\ UNCHANGED ruRest

SpecReuse == InitThreads /\ [][NextReuse]_vars

\* A Vulkan layer whose application creates pipelines in batches.
bpRest == <<vkVars, glVars, d3d9Vars, dsVars, plVars, upVars, qpVars, mtVars, rpVars, tpVars, ruVars, rcVars, drVars, bcVars>>

NextBatch ==
    \/ VkCreatePipelines /\ UNCHANGED bpRest
    \/ VkDestroyPipeline /\ UNCHANGED bpRest

SpecBatch == InitThreads /\ [][NextBatch]_vars

\* A Direct3D 9 application whose threads share references to the device.
\* The references the application obtained before (from CreateDevice, AddRef
\* and QueryInterface) are owned by its threads.
InitRefCount ==
    /\ backend = "d3d9"
    /\ ndebug \in BOOLEAN
    /\ crashed = "none"
    /\ gl_default_depth_format = "GL_NONE"
    /\ VulkanInit /\ OpenGLInit /\ D3D9Init
    /\ DescriptorsInit /\ PipelinesInit /\ UploadInit /\ QueriesInit /\ ThreadsInit
    /\ RenderPassesInit /\ ReuseInit /\ BatchInit /\ TransientInit /\ DrawInit /\ BlendInit
    /\ qp_queues = <<TRUE>>
    /\ rc_deleted = 0
    /\ rc_orig = rc_no_calls
    /\ rc_proxy = rc_no_calls
    /\ rc_freed_reads = {}
    /\ \E owned \in [Threads -> 0..MaxAddRefs] :
          /\ \E t \in Threads : owned[t] > 0
          /\ rc_ref = rc_total(owned, Threads)
          /\ rc_threads = [t \in Threads |-> [pc |-> "idle", owned |-> owned[t], ref |-> 0]]

rcRest == <<vkVars, glVars, d3d9Vars, dsVars, plVars, upVars, qpVars, mtVars, rpVars, tpVars, ruVars, bpVars, drVars, bcVars>>

NextRefCount ==
    \/ \E t \in Threads : DeviceAddRefOrig(t) /\ UNCHANGED rcRest
    \/ \E t \in Threads : DeviceAddRefIncrement(t) /\ UNCHANGED rcRest
    \/ \E t \in Threads : DeviceReleaseDecrement(t) /\ UNCHANGED rcRest
    \/ \E t \in Threads : DeviceReleaseOrig(t) /\ UNCHANGED rcRest
    \/ \E t \in Threads : DeviceReleaseDelete(t) /\ UNCHANGED rcRest

SpecRefCount == InitRefCount /\ [][NextRefCount]_vars

\* A Direct3D 9 application that draws.
InitDraw == InitRefCount /\ rc_ref = 1

drRest == <<vkVars, glVars, d3d9Vars, dsVars, plVars, upVars, qpVars, mtVars, rpVars, tpVars, ruVars, bpVars, rcVars, bcVars>>

NextDraw ==
    \/ DeviceDraw /\ UNCHANGED drRest

SpecDraw == InitDraw /\ [][NextDraw]_vars

\* A device whose add-on creates graphics pipelines with blend constants.
bcRest == <<vkVars, glVars, d3d9Vars, dsVars, plVars, upVars, qpVars, mtVars, rpVars, tpVars, ruVars, bpVars, rcVars, drVars>>

NextBlend ==
    \/ VulkanDecodeBlendConstant /\ UNCHANGED bcRest
    \/ OpenGLDecodeBlendConstant /\ UNCHANGED bcRest

SpecBlend == PartInit /\ [][NextBlend]_vars

----------------------------------------------------------------------------
(* Properties.  Each is stated on the state a call leaves behind, using    *)
(* the record of that call.                                                *)

\* The entry e occurs in the sequence of calls a handler made.
in_trace(trace, e) == \E i \in 1..Len(trace) : trace[i] = e

\* What a successful create_resource reports back for its handle, apart
\* from the format.
reports_type_and_dimensions(requested, reported) ==
    /\ reported.type = requested.type
    /\ reported.width = requested.width
    /\ reported.height = requested.height
    /\ reported.depth_or_layers = requested.depth_or_layers
    /\ reported.size = requested.size

vk_created == vk_last.op = "create_resource" /\ vk_last.ret /\ crashed = "none"

C2_destroyed_handle_is_invalid ==
    /\ (vk_last.op = "destroy_resource" /\ crashed = "none")
          => ~vulkan_is_resource_handle_valid(vk_last.handle)
    /\ (gl_last.op = "destroy_resource" /\ crashed = "none")
          => ~opengl_is_resource_handle_valid(gl_last.handle)

\* destroy_resource returned for a resource that create_resource made.
C2_witness ==
    /\ vk_last.op = "destroy_resource"
    /\ vk_last.pre = "owned"
    /\ crashed = "none"
    /\ vk_last.trace /= <<>>

\* C3: a second destroy_resource(handle) after a first one on the same
\* non-zero handle completes without raising an error.
C3_second_destroy_completes ==
    (vk_last.op = "destroy_resource" /\ vk_last.was_destroyed) => crashed = "none"

\* C4: for every render pass create_render_pass returned, with N colour
\* attachments counted, get_attachment succeeds with a non-zero view for
\* every index below N and fails for index N.
C4_attachment_count_bounds_get_attachment ==
    (gl_last.op = "create_render_pass" /\ gl_last.ret /\ crashed = "none") =>
        LET pass == gl_last.out
            N == opengl_get_attachment_count_color(pass)
        IN  /\ \A i \in 0..(N - 1) :
                  /\ opengl_get_attachment_color(pass, i).ret
                  /\ opengl_get_attachment_color(pass, i).out /= gl_zero
            /\ ~opengl_get_attachment_color(pass, N).ret

\* C5: binding at index 0 the surface that the previous SetRenderTarget
\* bound there emits neither finish_render_pass nor begin_render_pass.
C5_rebind_emits_no_pass_notifications ==
    (/\ d3d9_last.op = "SetRenderTarget"
     /\ d3d9_last.index = 0
     /\ d3d9_last.hr = "S_OK"
     /\ d3d9_last.rebind) =>
        /\ ~in_trace(d3d9_last.trace, "finish_render_pass")
        /\ ~in_trace(d3d9_last.trace, "begin_render_pass")

\* C6: every create_* operation of a device implementation that returns
\* failure has written the zero sentinel to its output handle.
C6_failure_writes_zero_sentinel ==
    /\ (/\ gl_last.op \in {"create_resource", "create_resource_view"}
        /\ ~gl_last.ret /\ crashed = "none") => gl_last.out = gl_zero
    /\ (/\ gl_last.op = "create_render_pass"
        /\ ~gl_last.ret /\ crashed = "none") => gl_last.out = gl_pass_zero
    /\ (/\ vk_last.op \in {"create_resource", "create_resource_view"}
        /\ ~vk_last.ret /\ crashed = "none") => vk_last.out = 0

\* C7: destroy_resource / destroy_resource_view of the Vulkan device, called
\* with a registered handle that is not owned, issues no native destroy
\* call and leaves the object alive.
C7_not_owned_is_never_destroyed ==
    (/\ vk_last.op \in {"destroy_resource", "destroy_resource_view"}
     /\ vk_last.pre = "not_owned") =>
        /\ \A i \in 1..Len(vk_last.trace) :
              vk_last.trace[i] \in {"lookup_resource", "lookup_resource_view"}
        /\ vk_last.handle \in DOMAIN vk_native

gl_view_created ==
    gl_last.op = "create_resource_view" /\ gl_last.ret /\ crashed = "none"

gl_view_destroyed ==
    /\ gl_last.op = "destroy_resource_view"
    /\ gl_last.data = "create_resource_view"
    /\ crashed = "none"

\* C8: a view of the OpenGL device carries the alias bit exactly when no
\* native texture was created for it; destroy_resource_view deletes nothing
\* for an alias and exactly the view's own texture otherwise, and in both
\* cases a resource that was valid before is valid afterwards.
C8_alias_views_are_not_deleted ==
    /\ gl_view_created =>
          /\ has_alias_bit(gl_last.out) <=> ~in_trace(gl_last.trace, "glGenTextures")
          /\ has_alias_bit(gl_last.out) =>
                opengl_get_resource_from_view(gl_last.out) = gl_last.handle
          /\ ~has_alias_bit(gl_last.out) => gl_last.out.object /= gl_last.handle.object
    /\ gl_view_destroyed =>
          /\ gl_last.trace =
                IF has_alias_bit(gl_last.handle) THEN <<>> ELSE <<"glDeleteTextures">>
          /\ ~has_alias_bit(gl_last.handle) => ~glIsTexture(gl_last.handle.object)
          /\ gl_last.valid_before => opengl_is_resource_handle_valid(gl_last.backing)

\* An alias view of a live texture was destroyed.
C8_witness ==
    /\ gl_view_destroyed
    /\ has_alias_bit(gl_last.handle)
    /\ gl_last.backing.target = "GL_TEXTURE_2D"
    /\ gl_last.valid_before

\* The create notification is delivered in this call, before any native
\* creation call.
notified_before(trace, notification, native) ==
    /\ in_trace(trace, notification)
    /\ \A i, j \in 1..Len(trace) :
          (trace[i] = notification /\ trace[j] = native) => i < j

\* The notification a Vulkan creation hook delivers.
vk_notification == IF vk_last.data = "image_view" THEN "create_resource_view"
                   ELSE "create_resource"

d3d9_created == d3d9_last.op \in {"CreateTexture", "CreateRenderTarget"}

\* What C9 says of a call the notification reported as handled.
vk_handled_skips_native ==
    (vk_last.op = "vkCreate" /\ vk_last.handled) =>
        /\ vk_last.trace = <<vk_notification>>
        /\ vk_last.ret
        /\ vk_last.out = vk_last.handle

d3d9_handled_skips_native ==
    (d3d9_created /\ d3d9_last.notify /\ d3d9_last.handled /\ crashed = "none") =>
        /\ d3d9_last.trace = <<"create_resource">>
        /\ d3d9_last.hr = "S_OK"
        /\ d3d9_last.out = d3d9_last.replacement

\* A handled call leaves the registries and the native objects as they were.
handled_registers_nothing ==
    /\ (vk_last'.op = "vkCreate" /\ vk_last'.handled) =>
          UNCHANGED <<vk_resources, vk_views, vk_native>>
    /\ (d3d9_created' /\ d3d9_last'.notify /\ d3d9_last'.handled) =>
          UNCHANGED d3d9_resources

C10_map_failure_nulls_data ==
    /\ (/\ vk_last.op = "map_resource"
        /\ crashed = "none"
        /\ vk_resources[vk_last.handle].allocation /= "vma_host_visible") =>
          /\ ~vk_last.ret
          /\ vk_last.data = "null"
    /\ (vk_last.op = "map_resource" /\ ndebug) => crashed /= "assert"

----------------------------------------------------------------------------
(* Properties of descriptor sets.                                          *)

\* What binding b of a set holds, read from the OpenGL sets gl and the
\* Vulkan sets vk.
read_binding(gl, vk, set, b) ==
    IF backend = "opengl"
    THEN IF gl[set].type = "sampler_with_resource_view"
         THEN <<gl[set].descriptors[b * 2 + 1], gl[set].descriptors[b * 2 + 2]>>
         ELSE <<gl[set].descriptors[b + 1]>>
    ELSE <<vk[set][b].sampler, vk[set][b].view, vk[set][b].buffer>>

zero_binding(gl, set) ==
    IF gl[set].type = "sampler_with_resource_view" THEN <<0, 0>> ELSE <<0>>

\* The latest call was update_descriptor_sets with one copy between the
\* same bindings of two sets.
ds_copied ==
    /\ ds_last.op = "update_descriptor_sets"
    /\ ds_last.copy.count > 0
    /\ ds_last.copy.src_binding = ds_last.copy.dst_binding
    /\ crashed = "none"

copy_moves_source_values ==
    ds_copied' =>
        LET c == ds_last'.copy
        IN  \A set \in ds_sets, b \in 0..(ds_layout.count - 1) :
                read_binding(gl_sets', vk_sets', set, b) =
                    IF /\ set = c.dst_set
                       /\ b >= c.dst_binding /\ b < c.dst_binding + c.count
                    THEN read_binding(gl_sets, vk_sets, c.src_set, b)
                    ELSE read_binding(gl_sets, vk_sets, set, b)

\* C11: a copy of count k from binding b of S1 to binding b of S2 leaves in
\* bindings [b, b+k) of S2 what those bindings of S1 held before the call,
\* for every descriptor type, and changes no other binding of S2 and
\* nothing of S1.
C11_copy_moves_source_values == [][copy_moves_source_values]_vars

\* Two sampler+view pairs were copied into another OpenGL set.
C11_witness ==
    /\ ds_copied
    /\ backend = "opengl"
    /\ ds_last.copy.type = "sampler_with_resource_view"
    /\ ds_last.copy.count = 2
    /\ ds_last.copy.src_set /= ds_last.copy.dst_set
    /\ \A i \in 1..4 : gl_sets[ds_last.copy.dst_set].descriptors[i] /= 0

\* The latest call was update_descriptor_sets with one write to a set of
\* the OpenGL device.
gl_set_written ==
    /\ backend = "opengl"
    /\ ds_last.op = "update_descriptor_sets"
    /\ ds_last.write.type /= "none"
    /\ crashed = "none"

fresh_set_is_zero ==
    (backend = "opengl" /\ ds_last.op = "create_descriptor_sets") =>
        \A b \in 0..(ds_layout.count - 1) :
            read_binding(gl_sets, vk_sets, ds_last.out, b) = zero_binding(gl_sets, ds_last.out)

write_changes_one_binding ==
    gl_set_written' =>
        LET w == ds_last'.write
        IN  \A set \in ds_sets, b \in 0..(ds_layout.count - 1) :
                read_binding(gl_sets', vk_sets', set, b) =
                    IF set = w.set /\ b = w.binding
                    THEN (CASE w.type = "sampler_with_resource_view" -> <<w.sampler, w.view>>
                            [] w.type = "sampler" -> <<w.sampler>>
                            [] w.type = "constant_buffer" -> <<w.resource>>
                            [] OTHER -> <<w.view>>)
                    ELSE read_binding(gl_sets, vk_sets, set, b)

\* C12: a set freshly allocated by the OpenGL device has every binding at
\* the zero sentinel, and a single write to binding j makes binding j read
\* back the written handles and leaves every other binding as it was.
C12_write_reads_back == []fresh_set_is_zero /\ [][write_changes_one_binding]_vars

\* Binding 1 of a set with two sampler+view pairs was written while
\* binding 0 is still at the zero sentinel.
C12_witness ==
    /\ gl_set_written
    /\ ds_last.write.type = "sampler_with_resource_view"
    /\ ds_last.write.binding = 1
    /\ ds_last.write.view /= 0
    /\ read_binding(gl_sets, vk_sets, ds_last.write.set, 0) = <<0, 0>>
    /\ read_binding(gl_sets, vk_sets, ds_last.write.set, 1) =
          <<ds_last.write.sampler, ds_last.write.view>>

----------------------------------------------------------------------------
(* Properties of pipeline creation.                                        *)

\* The latest call was create_graphics_pipeline or create_compute_pipeline,
\* reached through create_pipeline.
pipeline_created ==
    /\ pl_last.op = "create_pipeline"
    /\ pl_last.desc.type \in
          (IF backend = "opengl" THEN {"all_graphics", "compute_shader"}
           ELSE {"all_graphics", "all_compute"})

\* A requested stage did not compile, or the program did not link, or the
\* driver did not create the pipeline.
pipeline_stage_or_link_failed ==
    \/ \E i \in DOMAIN pl_last.desc.shaders : pl_last.desc.shaders[i] = "fails"
    \/ pl_last.desc.shader = "fails"
    \/ ~pl_last.link_status
    \/ pl_last.result /= "VK_SUCCESS"

\* The shader objects or modules the latest call created.
shaders_created ==
    {pl_last.trace[i][2] : i \in {k \in DOMAIN pl_last.trace :
        /\ pl_last.trace[k][1] \in {"glCreateShader", "vkCreateShaderModule"}
        /\ pl_last.trace[k][2] /= 0}}

\* How often the latest call released the shader object or module s.
times_released(s) ==
    Cardinality({k \in DOMAIN pl_last.trace :
        /\ pl_last.trace[k][1] \in {"glDeleteShader", "vkDestroyShaderModule"}
        /\ pl_last.trace[k][2] = s})

\* Every object the latest call brought to life.
objects_created ==
    {<<created_kind(pl_last.trace[i][1]), pl_last.trace[i][2]>> :
        i \in {k \in DOMAIN pl_last.trace :
                  created_kind(pl_last.trace[k][1]) /= "none" /\ pl_last.trace[k][2] /= 0}}

\* C13: when a requested stage fails to compile, or linking or the native
\* pipeline creation fails, create_graphics_pipeline and
\* create_compute_pipeline return failure with the zero handle and leave
\* nothing they created alive; on failure and on success alike every shader
\* object or module created during the call is released exactly once.
C13_failed_pipeline_leaves_nothing ==
    pipeline_created =>
        /\ pipeline_stage_or_link_failed => ~pl_last.ret
        /\ ~pl_last.ret => pl_last.out = 0 /\ objects_created \cap pl_live = {}
        /\ \A s \in shaders_created :
              /\ times_released(s) = 1
              /\ <<"shader", s>> \notin pl_live /\ <<"module", s>> \notin pl_live

\* A graphics pipeline whose vertex shader compiled and whose pixel shader
\* did not: the call failed after creating and releasing the vertex shader.
C13_witness ==
    /\ pipeline_created
    /\ pl_last.desc.type = "all_graphics"
    /\ pl_last.desc.shaders[1] = "compiles"
    /\ pl_last.desc.shaders[5] = "fails"
    /\ ~pl_last.ret
    /\ shader_name(1) \in shaders_created
    /\ times_released(shader_name(1)) = 1

\* The description of the latest create_pipeline call of the Vulkan device
\* is one the device rejects without asking the driver for a pipeline.
vulkan_validation_error ==
    /\ backend = "vulkan"
    /\ pl_last.op = "create_pipeline"
    /\ \/ pl_last.desc.type \notin {"all_graphics", "all_compute"}
       \/ /\ pl_last.desc.type = "all_graphics"
          /\ \/ pl_last.desc.render_pass_template = 0
             \/ \E i \in DOMAIN pl_last.desc.dynamic_states :
                   pl_last.desc.dynamic_states[i] \notin vulkan_dynamic_states
             \/ ~vulkan_vertex_bindings(pl_last.desc.input_layout, 1, <<>>).ok

opengl_validation_error ==
    /\ backend = "opengl"
    /\ pl_last.op = "create_pipeline_layout"
    /\ pl_last.num_constant_ranges > 1

\* C14: a create request rejected for a validation error returns failure
\* without any native call and without any object left allocated.
C14_rejection_makes_no_native_call ==
    (vulkan_validation_error \/ opengl_validation_error) =>
        ~pl_last.ret /\ pl_last.out = 0 /\ pl_last.trace = <<>>

----------------------------------------------------------------------------
(* Properties of texture uploads.                                          *)

\* The source offset of byte i (from 0) of the packed region of the latest
\* upload: row y of slice z starts at z * slice_pitch + y * row_pitch.
up_source_offset(i) ==
    LET row_size_packed == up_last.width * up_last.format_bpp
        row == i \div row_size_packed
        z == row \div up_last.height
        y == row % up_last.height
    IN  z * up_last.data.slice_pitch + y * up_last.data.row_pitch + (i % row_size_packed)

\* C15: for every slice z and row y, upload_texture_region transfers the
\* row_size_packed bytes at source offset z * slice_pitch + y * row_pitch,
\* for any row pitch and slice pitch that are at least the packed sizes,
\* on the Vulkan and on the OpenGL device.
C15_upload_takes_rows_at_their_pitch ==
    (up_last.op = "upload_texture_region" /\ up_last.uploaded) =>
        /\ Len(up_texture) = up_last.depth * up_last.height * up_last.width * up_last.format_bpp
        /\ \A i \in DOMAIN up_texture :
              up_texture[i] = up_last.data.data[up_source_offset(i - 1) + 1]

----------------------------------------------------------------------------
(* Properties of query pools.                                              *)

\* C16: when create_query_pool succeeds for n queries, every query of the
\* pool has been brought to its initial state (reset on the Vulkan device,
\* a created query object on the OpenGL device) before the call returns,
\* whatever the number of queues with an immediate command list.
C16_new_queries_are_initialized ==
    (qp_last.op = "create_query_pool" /\ qp_last.ret) =>
        /\ Len(qp_pools[qp_last.out]) = qp_last.count
        /\ \A i \in 1..qp_last.count : qp_pools[qp_last.out][i] \in {"reset", "object"}

----------------------------------------------------------------------------
(* Properties of the render pass notifications of the Direct3D 9 device.   *)

\* C17: over any sequence of SetRenderTarget, SetDepthStencilSurface,
\* Present and PresentEx calls that starts with a pass open,
\* begin_render_pass and finish_render_pass alternate: no begin comes while
\* a pass is open and no finish while none is open.
C17_pass_notifications_alternate ==
    backend = "d3d9" => d3d9_pass /= "out_of_order"

\* A frame was presented after render target 0 and the depth-stencil
\* surface had been changed, and the pass is open again.
C17_witness ==
    /\ d3d9_last.op = "PresentEx"
    /\ d3d9_last.hr = "S_OK"
    /\ d3d9_rtv[0] /= d3d9_back_buffer
    /\ d3d9_dsv = d3d9_depth_buffer
    /\ d3d9_pass = "open"

\* The step is a SetDepthStencilSurface call.
depth_stencil_set == d3d9_last'.op = "SetDepthStencilSurface"

depth_stencil_rebind_is_one_pass_boundary ==
    depth_stencil_set =>
        IF d3d9_last'.hr = "S_OK" /\ d3d9_last'.surface /= d3d9_dsv
        THEN /\ d3d9_last'.trace = <<"_orig", "finish_render_pass", "_current_pass->dsv",
                                     "begin_render_pass">>
             /\ d3d9_dsv' = d3d9_last'.surface
             /\ d3d9_rtv' = d3d9_rtv
        ELSE /\ d3d9_last'.trace = <<"_orig">>
             /\ d3d9_dsv' = d3d9_dsv
             /\ d3d9_rtv' = d3d9_rtv

\* C18: a successful SetDepthStencilSurface with the tracked surface, and a
\* failed one, notify nobody and leave the tracked attachments as they
\* are; a successful one with another surface emits one finish_render_pass,
\* then updates the tracked depth-stencil surface, then emits one
\* begin_render_pass.
C18_depth_stencil_rebind_is_one_pass_boundary ==
    [][depth_stencil_rebind_is_one_pass_boundary]_vars

\* The depth-stencil surface was set where none was tracked, between a
\* finish and a begin notification.
C18_witness ==
    /\ d3d9_last.op = "SetDepthStencilSurface"
    /\ d3d9_last.hr = "S_OK"
    /\ d3d9_last.surface = d3d9_depth_buffer
    /\ d3d9_dsv = d3d9_depth_buffer
    /\ in_trace(d3d9_last.trace, "begin_render_pass")

----------------------------------------------------------------------------
(* Properties of the device mutex.                                         *)

\* Thread t is inside an access to a registry table.
mt_inside(t) == mt_threads[t].inside

\* C19: every access to a registry table of the Vulkan device is made with
\* the device mutex held, so no two threads are inside an access to a
\* table at the same time.
C19_registry_access_holds_mutex ==
    \A t \in Threads :
        mt_inside(t) =>
            /\ mt_mutex = t
            /\ \A u \in Threads \ {t} :
                  ~(mt_inside(u) /\ mt_current(u)[2] = mt_current(t)[2])

----------------------------------------------------------------------------
(* Creation of a Vulkan texture with initial data.                         *)

\* create_resource has just created the native image of a texture that
\* comes with initial data.
texture_created_with_data ==
    /\ backend = "vulkan"
    /\ vk_last.op = "create_resource"
    /\ vk_last.data = "initial_data"
    /\ vk_last.out \in DOMAIN vk_native

\* C21: create_resource creates the native image first, registers it second
\* and only then records barriers and uploads; whether or not an upload
\* fails or an immediate command list exists, the image stays registered
\* and the call returns success with its handle.
C21_texture_is_registered_before_uploads ==
    texture_created_with_data =>
        /\ crashed /= "exception"
        /\ vk_last.out \in DOMAIN vk_resources
        /\ vk_resources[vk_last.out].owned
        /\ Len(vk_last.trace) >= 2
        /\ vk_last.trace[1] \in {"vk.Create", "vmaCreate"}
        /\ vk_last.trace[2] = "register_image"
        /\ \A i \in 3..Len(vk_last.trace) :
              vk_last.trace[i] \notin {"vk.Create", "vmaCreate", "register_image"}
        /\ crashed = "none" => vk_last.ret

\* The upload buffer of an initial upload could not be allocated.
C21_witness ==
    /\ texture_created_with_data
    /\ in_calls(vk_last.trace, "LOG(ERROR)")
    /\ vk_last.ret
    /\ vk_last.out \in DOMAIN vk_resources

\* The device has no immediate command list, so nothing was uploaded.
C21_witness_no_immediate ==
    /\ texture_created_with_data
    /\ crashed = "none"
    /\ Len(vk_last.trace) = 2
    /\ vk_last.ret


----------------------------------------------------------------------------
(* The side tables of Vulkan render passes.                                *)

\* The description a live render pass was created from: its colour targets
\* are the attachments of the framebuffer entry typed as colour by the
\* caller, counted from the call that created it.
rp_created ==
    /\ rp_last.op = "create_render_pass"
    /\ rp_last.ret

----------------------------------------------------------------------------
(* The transient descriptor pools.                                         *)

\* The elements of a sequence.
tp_range(seq) == {seq[i] : i \in DOMAIN seq}

tp_presented == tp_last.op = "vkQueuePresentKHR" /\ tp_last.tracked

\* C23: without push descriptors, a vkQueuePresentKHR on a tracked queue
\* advances _transient_index by one (modulo 2^32) and resets exactly the
\* pool the new index selects, which was not current in any of the three
\* latest frames; with push descriptors the index stays as it is and no
\* pool is ever reset.
C23_present_resets_the_oldest_pool ==
    /\ tp_presented /\ ~tp_push_descriptors =>
          /\ tp_index = uint32_increment(tp_last.index)
          /\ tp_index /= tp_last.index
          /\ tp_last.reset = {current_transient_pool(tp_index)}
          /\ current_transient_pool(tp_index) \notin tp_range(tp_last.recent)
    /\ tp_push_descriptors =>
          /\ \A p \in DOMAIN tp_resets : tp_resets[p] = 0
          /\ tp_last.op /= "none" => tp_index = tp_last.index /\ tp_last.reset = {}

\* The index has wrapped around from 2^32 - 1 to 0 after three tracked
\* frames.
C23_witness ==
    /\ tp_presented
    /\ ~tp_push_descriptors
    /\ tp_last.index = uint32(HalfRange - 1, HalfRange - 1)
    /\ tp_index = uint32(0, 0)
    /\ tp_range(tp_last.recent) = {1, 2, 3}


----------------------------------------------------------------------------
(* The destroy hooks of the Vulkan layer.                                  *)

\* C24: the registry lookup made by vkDestroyBuffer, vkDestroyImage and
\* vkDestroyImageView finds the handle registered, whatever handle the
\* application may pass, the null handle included.
C24_destroy_hooks_look_up_registered_handles ==
    backend = "vulkan" /\ vk_last.op = "vkDestroy" =>
        /\ vk_last.pre /= "unregistered"
        /\ crashed /= "exception"


----------------------------------------------------------------------------
(* Reuse of a handle value while its resource is being destroyed.          *)

\* C25: when destroy_resource and create_resource run on two threads and
\* the driver gives the new object the handle of the destroyed one, the
\* registry holds the record of every live object once both have
\* returned, and is_resource_handle_valid is not true for a handle whose
\* native object is destroyed.
C25_registry_follows_reused_handles ==
    /\ ru_destroy.pc = "idle" /\ ru_create.pc = "idle" =>
          \A h \in DOMAIN ru_objects :
              /\ h \in DOMAIN vk_resources
              /\ vk_resources[h].create_info = ru_objects[h]
    /\ ru_valid.ret => ru_valid.alive


----------------------------------------------------------------------------
(* OpenGL views that are the resource itself.                              *)

\* The view handle names the native object of the resource it refers to.
is_resource_itself(view, resource) ==
    view.target = resource.target /\ view.object = resource.object

\* C26: every view handle of the OpenGL device that names the resource's
\* own native object has the not-owned bit (0x1) set, and
\* destroy_resource_view called with it leaves the resource alive.
C26_views_of_the_resource_itself_are_flagged ==
    backend = "opengl" =>
        /\ \A v \in gl_views :
              is_resource_itself(v.view, v.resource) => has_alias_bit(v.view)
        /\ /\ gl_last.op = "destroy_resource_view"
           /\ is_resource_itself(gl_last.handle, gl_last.backing)
           /\ gl_last.valid_before
           => opengl_is_resource_handle_valid(gl_last.backing)


----------------------------------------------------------------------------
(* Batches of pipeline create infos.                                       *)

bp_created ==
    bp_last.op \in {"vkCreateGraphicsPipelines", "vkCreateComputePipelines"}

\* The number of times vkDestroyPipeline was called on a handle.
bp_times_destroyed(h) ==
    Cardinality({k \in DOMAIN bp_last.destroyed : bp_last.destroyed[k] = h})

\* The first create info the driver failed on, 0 if there is none.
bp_first_failure ==
    IF \E i \in DOMAIN bp_last.infos : bp_last.infos[i] \notin {"replaced", "VK_SUCCESS"}
    THEN CHOOSE i \in DOMAIN bp_last.infos :
            /\ bp_last.infos[i] \notin {"replaced", "VK_SUCCESS"}
            /\ \A k \in 1..(i - 1) : bp_last.infos[k] \in {"replaced", "VK_SUCCESS"}
    ELSE 0

\* C27: a batch of create infos is all or nothing.  Without a failure the
\* call returns VK_SUCCESS and every slot holds a pipeline; when the driver
\* fails on element i the call returns its error, every slot is
\* VK_NULL_HANDLE, the pipelines the driver created for earlier elements
\* were each destroyed once, and no replacement pipeline of an add-on was
\* destroyed.
C27_batch_is_all_or_nothing ==
    bp_created =>
        IF bp_first_failure = 0
        THEN /\ bp_last.result = "VK_SUCCESS"
             /\ \A k \in DOMAIN bp_last.pPipelines : bp_last.pPipelines[k] /= 0
             /\ bp_last.destroyed = <<>>
        ELSE /\ bp_last.result = bp_last.infos[bp_first_failure]
             /\ \A k \in DOMAIN bp_last.pPipelines : bp_last.pPipelines[k] = 0
             /\ \A k \in 1..(bp_first_failure - 1) :
                   /\ bp_last.infos[k] = "VK_SUCCESS" => bp_times_destroyed(bp_native(k)) = 1
                   /\ bp_last.infos[k] = "replaced" => bp_times_destroyed(bp_replacement(k)) = 0


----------------------------------------------------------------------------
(* Reference counting of the Direct3D 9 device proxy.                      *)

rc_quiescent == \A t \in Threads : rc_threads[t].pc = "idle"

\* C28: whatever the interleaving of AddRef and Release, the proxy is
\* deleted once and only when its count is zero, the original device gets
\* one AddRef per proxy AddRef and one Release per proxy Release, and no
\* call reads a field of the proxy after the proxy was deleted.
C28_proxy_reference_counting ==
    /\ rc_deleted <= 1
    /\ rc_deleted = 1 => rc_ref = 0
    /\ rc_quiescent /\ rc_ref = 0 => rc_deleted = 1
    /\ rc_quiescent => rc_orig = rc_proxy
    /\ rc_freed_reads = {}


----------------------------------------------------------------------------
(* Draw calls of the Direct3D 9 device proxy.                              *)

dr_count(c) == Cardinality({k \in DOMAIN dr_last.trace : dr_last.trace[k] = c})

\* C29: a draw call that follows another draw call notifies the add-ons of
\* the primitive topology exactly when its primitive type differs from the
\* one of the previous draw, does so before its draw notification, and
\* skips the native draw exactly when the draw notification was handled.
C29_topology_is_bound_when_it_changes ==
    dr_last.previous /= "none" =>
        /\ dr_count("bind_pipeline_states") =
              (IF dr_last.PrimitiveType /= dr_last.previous THEN 1 ELSE 0)
        /\ dr_count(draw_event(dr_last.op)) = 1
        /\ dr_last.trace[dr_count("bind_pipeline_states") + 1] = draw_event(dr_last.op)
        /\ dr_count("_orig->" \o dr_last.op) = (IF dr_last.handled THEN 0 ELSE 1)
        /\ Len(dr_last.trace) = dr_count("bind_pipeline_states") + 1
                                + (IF dr_last.handled THEN 0 ELSE 1)

C29_witness ==
    /\ dr_last.previous \in PrimitiveTypes
    /\ dr_last.PrimitiveType /= dr_last.previous
    /\ dr_last.handled
    /\ dr_last.trace = <<"bind_pipeline_states", "draw_indexed">>


----------------------------------------------------------------------------
(* The blend constant of a graphics pipeline.                              *)

\* Bits 8i .. 8i+7 of a 32-bit value.
bc_byte(x, i) ==
    CASE i = 0 -> x.lo % 256
      [] i = 1 -> x.lo \div 256
      [] i = 2 -> x.hi % 256
      [] i = 3 -> x.hi \div 256

\* C30: create_graphics_pipeline decodes the packed blend constant so that
\* channel i is bits 8i..8i+7 of the packed value over 255, and the Vulkan
\* and OpenGL devices decode the same value to the same channels.
C30_blend_constant_channels_are_bytes ==
    bc_last.op = "create_graphics_pipeline" =>
        /\ \A i \in 0..3 : bc_last.channels[i + 1] = over_255(bc_byte(bc_last.blend_constant, i))
        /\ vulkan_blend_constants(bc_last.blend_constant)
              = opengl_blend_constant(bc_last.blend_constant)
====
